---------------------------- MODULE Spec2Model ----------------------------
(***************************************************************************)
(* Model of the ai-finance-assistant web client (React/TypeScript) and of  *)
(* the backend contracts it talks to.                                      *)
(*                                                                         *)
(*  - lib/agentEngine.ts    keyword router detectAgent, backendAgentToType *)
(*  - lib/holdingsStore.ts  localStorage holdings store                    *)
(*  - lib/storage.ts        chat sessions and backend session map          *)
(*  - App.tsx               session selection and the assistant route      *)
(*  - components/ChatInterface.tsx, PortfolioChart.tsx, PortfolioInput.tsx *)
(*  - backend Router, LedgerStore, ToolLoop and Orchestrator, whose Python *)
(*    sources are not part of the tree; they are modelled from the written *)
(*    specification.                                                       *)
(*                                                                         *)
(* Text is modelled as a sequence of one-character strings, so that        *)
(* String.includes, toLowerCase, trim, parseFloat and the regular          *)
(* expressions are computed on characters as the JavaScript does.          *)
(***************************************************************************)
EXTENDS Integers, Sequences, FiniteSets, TLC

\* ------------------------------------------------------------------------
\* Characters
\* ------------------------------------------------------------------------

UPPER ==
  <<"A","B","C","D","E","F","G","H","I","J","K","L","M",
    "N","O","P","Q","R","S","T","U","V","W","X","Y","Z">>

LOWER ==
  <<"a","b","c","d","e","f","g","h","i","j","k","l","m",
    "n","o","p","q","r","s","t","u","v","w","x","y","z">>

DIGITS ==
  <<"0","1","2","3","4","5","6","7","8","9">>

Range(s) ==
  { s[i] : i \in DOMAIN s }

UpperSet ==
  Range(UPPER)

\* [A-Z]
IsUpper(c) ==
  c \in UpperSet

WordSet ==
  Range(UPPER) \cup Range(LOWER) \cup Range(DIGITS) \cup {"_"}

\* \w of a JavaScript regular expression
IsWord(c) ==
  c \in WordSet

\* String.prototype.toLowerCase on one character
LowerChar(c) ==
  IF IsUpper(c) THEN LOWER[CHOOSE i \in DOMAIN UPPER : UPPER[i] = c] ELSE c

\* String.prototype.toLowerCase
RECURSIVE toLowerCase(_)
toLowerCase(s) ==
  IF s = <<>> THEN <<>>
  ELSE <<LowerChar(Head(s))>> \o toLowerCase(Tail(s))

\* String.prototype.toUpperCase on one character
UpperChar(c) ==
  IF c \in Range(LOWER) THEN UPPER[CHOOSE i \in DOMAIN LOWER : LOWER[i] = c] ELSE c

\* String.prototype.toUpperCase
RECURSIVE toUpperCase(_)
toUpperCase(s) ==
  IF s = <<>> THEN <<>>
  ELSE <<UpperChar(Head(s))>> \o toUpperCase(Tail(s))

\* String.prototype.includes
includes(s, kw) ==
  \/ kw = <<>>
  \/ \E i \in 1..(Len(s) - Len(kw) + 1) :
        /\ s[i] = kw[1]
        /\ SubSeq(s, i, i + Len(kw) - 1) = kw

\* Array.prototype.some((kw) => q.includes(kw))
some(KEYWORDS, q) ==
  \E k \in DOMAIN KEYWORDS : includes(q, KEYWORDS[k])

IsSpace(c) ==
  c = " "

\* String.prototype.trim
trim(s) ==
  IF \A i \in DOMAIN s : IsSpace(s[i]) THEN <<>>
  ELSE LET a == CHOOSE i \in DOMAIN s :
                  /\ ~IsSpace(s[i])
                  /\ \A j \in 1..(i - 1) : IsSpace(s[j])
           b == CHOOSE i \in DOMAIN s :
                  /\ ~IsSpace(s[i])
                  /\ \A j \in (i + 1)..Len(s) : IsSpace(s[j])
       IN SubSeq(s, a, b)

\* ------------------------------------------------------------------------
\* lib/agentEngine.ts : keyword maps
\* ------------------------------------------------------------------------

STOCK_KEYWORDS ==
  <<
    <<"s","t","o","c","k"," ","p","r","i","c","e">>,
    <<"t","r","a","d","i","n","g"," ","a","t">>,
    <<"q","u","o","t","e">>,
    <<"s","h","a","r","e"," ","p","r","i","c","e">>,
    <<"c","u","r","r","e","n","t"," ","p","r","i","c","e">>,
    <<"p","e"," ","r","a","t","i","o">>,
    <<"p","/","e">>,
    <<"e","p","s">>,
    <<"e","a","r","n","i","n","g","s"," ","p","e","r"," ","s","h","a","r","e">>,
    <<"p","r","i","c","e"," ","t","o"," ","e","a","r","n","i","n","g","s">>,
    <<"r","e","v","e","n","u","e">>,
    <<"m","a","r","g","i","n","s">>,
    <<"d","e","b","t"," ","t","o"," ","e","q","u","i","t","y">>,
    <<"r","o","e">>,
    <<"a","n","a","l","y","s","t"," ","t","a","r","g","e","t">>,
    <<"a","n","a","l","y","s","t"," ","r","a","t","i","n","g">>,
    <<"a","n","a","l","y","s","t"," ","r","e","c","o","m","m","e","n","d","a","t","i","o","n">>,
    <<"b","u","y"," ","r","a","t","i","n","g">>,
    <<"s","e","l","l"," ","r","a","t","i","n","g">>,
    <<"5","2","-","w","e","e","k">>,
    <<"5","2"," ","w","e","e","k">>,
    <<"a","l","l"," ","t","i","m","e"," ","h","i","g","h">>,
    <<"y","e","a","r"," ","t","o"," ","d","a","t","e">>,
    <<"y","t","d"," ","r","e","t","u","r","n">>,
    <<"s","t","o","c","k"," ","h","i","s","t","o","r","y">>,
    <<"s","t","o","c","k"," ","c","h","a","r","t">>,
    <<"c","a","n","d","l","e","s","t","i","c","k">>
  >>

PORTFOLIO_KEYWORDS ==
  <<
    <<"p","o","r","t","f","o","l","i","o">>,
    <<"h","o","l","d","i","n","g","s">>,
    <<"a","l","l","o","c","a","t","i","o","n">>,
    <<"d","i","v","e","r","s","i","f">>,
    <<"r","e","b","a","l","a","n","c","e">>,
    <<"m","y"," ","s","t","o","c","k","s">>,
    <<"m","y"," ","i","n","v","e","s","t","m","e","n","t","s">>,
    <<"a","s","s","e","t"," ","m","i","x">>,
    <<"c","o","n","c","e","n","t","r","a","t","i","o","n">>,
    <<"r","e","v","i","e","w"," ","m","y">>,
    <<"a","n","a","l","y","s","e"," ","m","y">>,
    <<"a","n","a","l","y","z","e"," ","m","y">>,
    <<"m","y"," ","a","s","s","e","t","s">>,
    <<"m","y"," ","h","o","l","d","i","n","g","s">>,
    <<"o","v","e","r","w","e","i","g","h","t">>,
    <<"u","n","d","e","r","w","e","i","g","h","t">>,
    <<"w","e","i","g","h","t","i","n","g">>
  >>

NEWS_KEYWORDS ==
  <<
    <<"n","e","w","s">>,
    <<"a","r","t","i","c","l","e">>,
    <<"h","e","a","d","l","i","n","e">>,
    <<"a","n","n","o","u","n","c","e","m","e","n","t">>,
    <<"p","r","e","s","s"," ","r","e","l","e","a","s","e">>,
    <<"l","a","t","e","s","t">>,
    <<"b","r","e","a","k","i","n","g">>,
    <<"w","h","a","t"," ","h","a","p","p","e","n","e","d">>,
    <<"s","u","m","m","a","r","i","z","e">>,
    <<"s","y","n","t","h","e","s","i","z","e">>,
    <<"e","a","r","n","i","n","g","s"," ","r","e","p","o","r","t">>
  >>

TAX_KEYWORDS ==
  <<
    <<"t","a","x">>,
    <<"i","r","s">>,
    <<"d","e","d","u","c","t","i","o","n">>,
    <<"f","i","l","i","n","g">>,
    <<"w","-","2">>,
    <<"1","0","9","9">>,
    <<"r","e","f","u","n","d">>,
    <<"w","i","t","h","h","o","l","d","i","n","g">>,
    <<"r","o","t","h">>,
    <<"i","r","a">>,
    <<"4","0","1","k">>,
    <<"t","r","a","d","i","t","i","o","n","a","l"," ","i","r","a">>,
    <<"t","a","x"," ","b","r","a","c","k","e","t">>,
    <<"c","a","p","i","t","a","l"," ","g","a","i","n","s"," ","t","a","x">>,
    <<"d","e","p","r","e","c","i","a","t","i","o","n">>,
    <<"w","r","i","t","e"," ","o","f","f">>,
    <<"a","u","d","i","t">>,
    <<"t","a","x"," ","r","e","t","u","r","n">>,
    <<"t","a","x"," ","c","r","e","d","i","t">>,
    <<"e","s","t","a","t","e"," ","t","a","x">>
  >>

ANALYST_KEYWORDS ==
  <<
    <<"m","a","r","k","e","t">>,
    <<"s","t","o","c","k">>,
    <<"p","r","i","c","e">>,
    <<"c","h","a","r","t">>,
    <<"t","i","c","k","e","r">>,
    <<"a","a","p","l">>,
    <<"t","s","l","a">>,
    <<"s","p","y">>,
    <<"n","a","s","d","a","q">>,
    <<"d","o","w">>,
    <<"s","&","p">>,
    <<"e","t","f">>,
    <<"i","n","d","e","x">>,
    <<"o","p","t","i","o","n","s">>,
    <<"e","a","r","n","i","n","g","s">>,
    <<"p","e"," ","r","a","t","i","o">>,
    <<"t","e","c","h","n","i","c","a","l">>,
    <<"b","u","l","l","i","s","h">>,
    <<"b","e","a","r","i","s","h">>,
    <<"v","o","l","a","t","i","l","i","t","y">>,
    <<"s","h","a","r","e","s">>,
    <<"e","q","u","i","t","y">>,
    <<"c","r","y","p","t","o">>,
    <<"b","i","t","c","o","i","n">>,
    <<"s","e","c","t","o","r">>,
    <<"m","a","r","k","e","t"," ","t","r","e","n","d">>,
    <<"m","a","r","k","e","t"," ","a","n","a","l","y","s","i","s">>
  >>

PLANNER_KEYWORDS ==
  <<
    <<"g","o","a","l">>,
    <<"p","l","a","n">>,
    <<"b","u","d","g","e","t">>,
    <<"r","e","t","i","r","e">>,
    <<"r","e","t","i","r","e","m","e","n","t">>,
    <<"e","m","e","r","g","e","n","c","y"," ","f","u","n","d">>,
    <<"s","a","v","e">>,
    <<"s","a","v","i","n","g">>,
    <<"d","e","b","t">>,
    <<"m","o","r","t","g","a","g","e">>,
    <<"c","o","l","l","e","g","e">>,
    <<"w","e","a","l","t","h">>,
    <<"t","a","r","g","e","t">>,
    <<"t","i","m","e","l","i","n","e">>,
    <<"f","i","n","a","n","c","i","a","l"," ","p","l","a","n">>,
    <<"h","o","w"," ","m","u","c","h"," ","s","h","o","u","l","d"," ","i">>,
    <<"f","i","n","a","n","c","i","a","l"," ","g","o","a","l">>
  >>

TRADING_KEYWORDS ==
  <<
    <<"b","u","y">>,
    <<"s","e","l","l">>,
    <<"t","r","a","d","e">>,
    <<"p","a","p","e","r"," ","t","r","a","d","e">>,
    <<"p","a","p","e","r"," ","t","r","a","d","i","n","g">>,
    <<"p","o","s","i","t","i","o","n">>,
    <<"p","o","s","i","t","i","o","n","s">>,
    <<"m","y"," ","p","o","s","i","t","i","o","n">>,
    <<"m","y"," ","t","r","a","d","e">>,
    <<"m","y"," ","t","r","a","d","e","s">>,
    <<"e","x","e","c","u","t","e">>,
    <<"p","l","a","c","e"," ","o","r","d","e","r">>,
    <<"o","r","d","e","r">>,
    <<"s","h","a","r","e","s"," ","o","f">>,
    <<"p","&","l">>,
    <<"p","r","o","f","i","t"," ","a","n","d"," ","l","o","s","s">>,
    <<"u","n","r","e","a","l","i","z","e","d">>,
    <<"r","e","a","l","i","z","e","d"," ","g","a","i","n">>
  >>

TICKER_VERBS ==
  <<
    <<"p","r","i","c","e">>,
    <<"t","r","a","d","i","n","g">>,
    <<"w","o","r","t","h">>,
    <<"h","o","l","d">>,
    <<"o","v","e","r","v","a","l","u","e","d">>,
    <<"u","n","d","e","r","v","a","l","u","e","d">>,
    <<"t","a","r","g","e","t">>,
    <<"f","o","r","e","c","a","s","t">>,
    <<"u","p">>,
    <<"d","o","w","n">>
  >>

\* Mutation: the expression carries the g flag
TICKER_RE_global_g ==
  TRUE

\* TICKER_RE = /\b[A-Z]{2,5}\b/ is built without the g (or y) flag
TICKER_RE_global ==
  FALSE

\* A match of \b[A-Z]{2,5}\b covering message[s..e] (1-based, inclusive)
TickerMatchAt(message, s, e) ==
  /\ 1 <= s
  /\ e <= Len(message)
  /\ e - s + 1 >= 2
  /\ e - s + 1 <= 5
  /\ \A i \in s..e : IsUpper(message[i])
  /\ (s = 1 \/ ~IsWord(message[s - 1]))
  /\ (e = Len(message) \/ ~IsWord(message[e + 1]))

\* The matches of TICKER_RE that start at or after the 0-based index from
TickerMatches(message, from) ==
  { m \in ((from + 1)..Len(message)) \X (1..Len(message)) :
      TickerMatchAt(message, m[1], m[2]) }

\* RegExp.prototype.test: the result and the lastIndex it leaves behind.
\* Without the global flag the search starts at 0 and lastIndex is untouched;
\* with it the search starts at lastIndex, which becomes the end of the
\* match, or 0 when there is none.
TICKER_RE_test(message, lastIndex) ==
  LET from == IF TICKER_RE_global THEN lastIndex ELSE 0
      ms   == TickerMatches(message, from)
      hit  == ms # {}
      first == CHOOSE m \in ms : \A n \in ms : m[1] <= n[1]
  IN [ok |-> hit,
      lastIndex |-> IF ~TICKER_RE_global THEN lastIndex
                    ELSE IF hit THEN first[2] ELSE 0]

\* Mutation: the trading keywords are compared with the message as typed
detectAgent_caseSensitive(message, lastIndex) ==
  LET q == toLowerCase(message)
      t == TICKER_RE_test(message, lastIndex)
  IN  IF some(TRADING_KEYWORDS, message) THEN [agent |-> "trader", lastIndex |-> lastIndex]
      ELSE IF some(PORTFOLIO_KEYWORDS, q) THEN [agent |-> "portfolio", lastIndex |-> lastIndex]
      ELSE IF some(NEWS_KEYWORDS, q) THEN [agent |-> "news", lastIndex |-> lastIndex]
      ELSE IF some(STOCK_KEYWORDS, q) THEN [agent |-> "stock", lastIndex |-> lastIndex]
      ELSE IF t.ok /\ some(TICKER_VERBS, q) THEN [agent |-> "stock", lastIndex |-> t.lastIndex]
      ELSE IF some(ANALYST_KEYWORDS, q) THEN [agent |-> "analyst", lastIndex |-> t.lastIndex]
      ELSE IF some(TAX_KEYWORDS, q) THEN [agent |-> "tax_pro", lastIndex |-> t.lastIndex]
      ELSE IF some(PLANNER_KEYWORDS, q) THEN [agent |-> "planner", lastIndex |-> t.lastIndex]
      ELSE [agent |-> "advisor", lastIndex |-> t.lastIndex]

\* Mutation: the generic market keywords are consulted before the stock ones
detectAgent_analystFirst(message, lastIndex) ==
  LET q == toLowerCase(message)
      t == TICKER_RE_test(message, lastIndex)
  IN  IF some(TRADING_KEYWORDS, q) THEN [agent |-> "trader", lastIndex |-> lastIndex]
      ELSE IF some(PORTFOLIO_KEYWORDS, q) THEN [agent |-> "portfolio", lastIndex |-> lastIndex]
      ELSE IF some(NEWS_KEYWORDS, q) THEN [agent |-> "news", lastIndex |-> lastIndex]
      ELSE IF some(ANALYST_KEYWORDS, q) THEN [agent |-> "analyst", lastIndex |-> lastIndex]
      ELSE IF some(STOCK_KEYWORDS, q) THEN [agent |-> "stock", lastIndex |-> lastIndex]
      ELSE IF t.ok /\ some(TICKER_VERBS, q) THEN [agent |-> "stock", lastIndex |-> t.lastIndex]
      ELSE IF some(TAX_KEYWORDS, q) THEN [agent |-> "tax_pro", lastIndex |-> t.lastIndex]
      ELSE IF some(PLANNER_KEYWORDS, q) THEN [agent |-> "planner", lastIndex |-> t.lastIndex]
      ELSE [agent |-> "advisor", lastIndex |-> t.lastIndex]

\* detectAgent(message): the agent and the lastIndex of TICKER_RE afterwards
detectAgent(message, lastIndex) ==
  LET q == toLowerCase(message)
      t == TICKER_RE_test(message, lastIndex)
  IN  IF some(TRADING_KEYWORDS, q) THEN [agent |-> "trader", lastIndex |-> lastIndex]
      ELSE IF some(PORTFOLIO_KEYWORDS, q) THEN [agent |-> "portfolio", lastIndex |-> lastIndex]
      ELSE IF some(NEWS_KEYWORDS, q) THEN [agent |-> "news", lastIndex |-> lastIndex]
      ELSE IF some(STOCK_KEYWORDS, q) THEN [agent |-> "stock", lastIndex |-> lastIndex]
      ELSE IF t.ok /\ some(TICKER_VERBS, q) THEN [agent |-> "stock", lastIndex |-> t.lastIndex]
      ELSE IF some(ANALYST_KEYWORDS, q) THEN [agent |-> "analyst", lastIndex |-> t.lastIndex]
      ELSE IF some(TAX_KEYWORDS, q) THEN [agent |-> "tax_pro", lastIndex |-> t.lastIndex]
      ELSE IF some(PLANNER_KEYWORDS, q) THEN [agent |-> "planner", lastIndex |-> t.lastIndex]
      ELSE [agent |-> "advisor", lastIndex |-> t.lastIndex]

\* type AgentType (lib/types.ts), the keys of AGENTS
AgentType ==
  {"advisor", "analyst", "tax_pro", "portfolio", "planner", "news", "stock", "trader"}

\* ------------------------------------------------------------------------
\* Questions typed into the chat box
\* ------------------------------------------------------------------------

\* "buy 10 shares of AAPL"
F_buy ==
  <<"b","u","y"," ","1","0"," ","s","h","a","r","e","s"," ","o","f"," ","A","A","P","L">>

\* " stock"
F_stock ==
  <<" ","s","t","o","c","k">>

\* "What is the wash sale rule?"
F_wash ==
  <<"W","h","a","t"," ","i","s"," ","t","h","e"," ","w","a","s","h"," ","s","a","l","e"," ","r","u","l","e","?">>

\* "Does it apply to ETFs?"
F_etfs ==
  <<"D","o","e","s"," ","i","t"," ","a","p","p","l","y"," ","t","o"," ","E","T","F","s","?">>

\* "SELL"
F_sell ==
  <<"S","E","L","L">>

\* "my portfolio"
F_portfolio ==
  <<"m","y"," ","p","o","r","t","f","o","l","i","o">>

\* "latest news"
F_news ==
  <<"l","a","t","e","s","t"," ","n","e","w","s">>

\* "Is TSLA overvalued?"
F_tsla ==
  <<"I","s"," ","T","S","L","A"," ","o","v","e","r","v","a","l","u","e","d","?">>

\* "pe ratio"
F_pe ==
  <<"p","e"," ","r","a","t","i","o">>

\* "capital gains tax"
F_tax ==
  <<"c","a","p","i","t","a","l"," ","g","a","i","n","s"," ","t","a","x">>

\* "retirement plan"
F_plan ==
  <<"r","e","t","i","r","e","m","e","n","t"," ","p","l","a","n">>

\* "hello "
F_hello ==
  <<"h","e","l","l","o"," ">>

\* "NVDA"
F_nvda ==
  <<"N","V","D","A">>

Fragments ==
  {F_buy, F_stock, F_wash, F_etfs, F_sell, F_portfolio, F_news, F_tsla,
   F_pe, F_tax, F_plan, F_hello, F_nvda}

Leads ==
  {F_buy, F_hello}

\* The texts the user may type: a fragment, or a lead followed by a fragment
Questions ==
  Fragments \cup { a \o b : a \in Leads, b \in Fragments }

\* The questions whose repeated routing is followed
Probes ==
  {F_wash, F_tsla}

\* How many routings of the probe are counted
MaxProbeRuns ==
  2

\* ------------------------------------------------------------------------
\* lib/agentEngine.ts : backendAgentToType
\* ------------------------------------------------------------------------

\* The keys and values of the map in backendAgentToType
backendAgentMap ==
  << <<"finance_qa_agent", "advisor">>,
     <<"portfolio_analysis_agent", "portfolio">>,
     <<"market_analysis_agent", "analyst">>,
     <<"tax_education_agent", "tax_pro">>,
     <<"goal_planning_agent", "planner">>,
     <<"news_synthesizer_agent", "news">>,
     <<"stock_agent", "stock">>,
     <<"trading_agent", "trader">> >>

\* map[backendName] ?? 'advisor'
backendAgentToType(backendName) ==
  IF \E i \in DOMAIN backendAgentMap : backendAgentMap[i][1] = backendName
  THEN backendAgentMap[CHOOSE i \in DOMAIN backendAgentMap :
                         backendAgentMap[i][1] = backendName][2]
  ELSE "advisor"

\* The agent names the API documents as possible values of the agent field
\* of an /ask response (routing table)
RoutingTableAgents ==
  {"finance_qa", "stock_agent", "market_analysis", "portfolio_analysis",
   "goal_planning", "news_synthesizer", "tax_education", "trading_agent"}

\* ------------------------------------------------------------------------
\* State
\* ------------------------------------------------------------------------

VARIABLES
  text,             \* handleSend: the trimmed text of the last send
  detected,         \* handleSend: detectedAgent of the last send
  activeAgent,      \* ChatInterface state activeAgent
  loading,          \* ChatInterface state loading
  tickerLastIndex,  \* TICKER_RE.lastIndex
  sessions,         \* localStorage finnie_sessions, as getSessions reads it
  activeSessionKey, \* localStorage finnie_active_session (0: no item)
  backendSessionMap,\* localStorage finnie_backend_session_map: its entries
                    \*   <<frontend id, backend id>> in insertion order
  activeSessionId,  \* App state activeSessionId (0: null)
  chatMounted,      \* whether the route /assistant renders ChatInterface
  sessionId,        \* ChatInterface prop sessionId (0 while not mounted)
  messages,         \* ChatInterface state messages
  inflight,         \* the calls of handleSend that are suspended at an await
  nextTurn,         \* number of the next send; stands for the fresh UUIDs
                    \*   of its messages and of a backend session it opens
  nextSession,      \* stands for the fresh UUID of the next createSession
  lastReply,        \* the last /ask response a handleSend received
  lastSuccess,      \* per chat session: session_id of its last /ask response
  probe,            \* the question whose routings are compared
  probeAgent,       \* what the first routing of probe returned
  probeRuns,        \* how often probe has been routed (saturating)
  routerPc,         \* backend Router: "idle", "llm" (call outstanding), "done"
  question,         \* backend Router: the question being routed
  llmResult,        \* backend Router: what the LLM classification call did
  decision,         \* backend Router: the RoutingDecision returned
  holdings,         \* localStorage finnie_holdings, as getHoldings reads it
  piError,          \* PortfolioInput state error
  sharedData,       \* usePortfolioSummary state data of the consumer that is
                    \*   followed (PortfolioChart in the store specifications)
  cached,           \* usePortfolioSummary module variable cached
  lastFetchedAt,    \* usePortfolioSummary module variable lastFetchedAt
  now,              \* Date.now(), in milliseconds
  fetches,          \* the calls of refresh that are suspended at the fetch
  nextFetch,        \* number of the next GET /portfolio/summary request
  refreshDid,       \* what the last call of refresh did: "null" (no session),
                    \*   "cache" (cached summary served), "fetch" (request sent)
  otherTab,         \* addHolding running in a second tab on the same storage
  ledger,           \* backend LedgerStore: the Holding rows of the session
  ledgerResult,     \* backend LedgerStore: outcome of the last buy or sell
  nTrades,          \* backend LedgerStore: number of Trade rows
  soldOut,          \* tickers whose Holding row a sell has deleted
  loopState,        \* backend ToolLoop: "idle", "THINK", "ACT", "DONE"
  iterations,       \* backend ToolLoop: tool-call rounds performed
  toolResults,      \* backend ToolLoop: results of the last round of calls
  loopAnswer,       \* backend ToolLoop: the string returned
  orchPc,           \* backend Orchestrator: step of process_query
  turnCount,        \* backend ConversationStore: turn_count of the session
  summary,          \* backend ConversationStore: "none", or a summary that
                    \*   is "fresh" (covers the latest turns) or "stale"
  synthesis,        \* backend Orchestrator: "none", "ok", "failed"
  context,          \* backend Orchestrator: "summary" or "raw" history used
  orchOutcome       \* backend Orchestrator: the answer of the request, or
                    \*   the error it failed with

\* The storage items and React state of the chat sessions
sessionVars ==
  <<sessions, activeSessionKey, backendSessionMap, activeSessionId,
    chatMounted, sessionId, messages, inflight, nextTurn, nextSession,
    lastReply, lastSuccess>>

chatVars ==
  <<text, detected, activeAgent, loading, tickerLastIndex, sessionVars>>

storeVars ==
  <<holdings, piError, sharedData>>

ledgerVars ==
  <<ledger, ledgerResult, nTrades, soldOut>>

probeVars ==
  <<probe, probeAgent, probeRuns>>

routerVars ==
  <<routerPc, question, llmResult, decision>>

loopVars ==
  <<loopState, iterations, toolResults, loopAnswer>>

orchVars ==
  <<orchPc, turnCount, summary, synthesis, context, orchOutcome>>

\* The cache of usePortfolioSummary, the clock and the requests under way
summaryVars ==
  <<cached, lastFetchedAt, now, fetches, nextFetch, refreshDid>>

\* What the actions of the web client and of the ledger leave alone
restVars ==
  <<otherTab, summaryVars, loopVars, orchVars>>

vars ==
  <<chatVars, probeVars, routerVars, storeVars, ledgerVars, restVars>>

NONE ==
  "none"

\* No LLM outcome yet
NoResult ==
  [kind |-> NONE]

\* No RoutingDecision returned yet
NoDecision ==
  [source |-> NONE]

\* No /ask response received yet
NoReply ==
  [turn |-> 0, agent |-> NONE, mounted |-> FALSE]

Min(a, b) ==
  IF a < b THEN a ELSE b

\* The application as it starts on empty storage: nothing stored, the
\* dashboard shown, no chat view
InitChat ==
  /\ text = <<>>
  /\ detected = NONE
  /\ activeAgent = "advisor"
  /\ loading = FALSE
  /\ tickerLastIndex = 0
  /\ sessions = <<>>
  /\ activeSessionKey = 0
  /\ backendSessionMap = <<>>
  /\ activeSessionId = 0
  /\ chatMounted = FALSE
  /\ sessionId = 0
  /\ messages = <<>>
  /\ inflight = {}
  /\ nextTurn = 1
  /\ nextSession = 1
  /\ lastReply = NoReply
  /\ lastSuccess = <<>>

InitProbe ==
  /\ probe \in Probes
  /\ probeAgent = NONE
  /\ probeRuns = 0

InitNoProbe ==
  /\ probe = <<>>
  /\ probeAgent = NONE
  /\ probeRuns = 0

InitRouter ==
  /\ routerPc = "idle"
  /\ question = <<>>
  /\ llmResult = NoResult
  /\ decision = NoDecision

\* No PortfolioInput error, no summary data
NULL ==
  "null"

\* The second tab is not inside addHolding
TabIdle ==
  [pc |-> "idle", existing |-> <<>>, h |-> <<>>]

\* data === null, cached === null
NullSummary ==
  [isNull |-> TRUE, sid |-> 0, holdings |-> <<>>]

\* const TTL = 10_000
TTL ==
  10000

\* The page has just loaded on empty storage: the consumers have mounted,
\* their refresh found no backend session and set data to null. Date.now()
\* is far beyond TTL
InitStore ==
  /\ holdings = <<>>
  /\ piError = NULL
  /\ sharedData = NullSummary
  /\ cached = NullSummary
  /\ lastFetchedAt = 0
  /\ now = TTL
  /\ fetches = {}
  /\ nextFetch = 1
  /\ refreshDid = NULL
  /\ otherTab = TabIdle

InitLedger ==
  /\ ledger = <<>>
  /\ ledgerResult = NONE
  /\ nTrades = 0
  /\ soldOut = {}

InitLoop ==
  /\ loopState = "idle"
  /\ iterations = 0
  /\ toolResults = <<>>
  /\ loopAnswer = <<>>

InitOrch ==
  /\ orchPc = "idle"
  /\ turnCount = 0
  /\ summary = NONE
  /\ synthesis = NONE
  /\ context = NONE
  /\ orchOutcome = <<>>

\* ------------------------------------------------------------------------
\* lib/storage.ts : sessions and the backend session map
\* ------------------------------------------------------------------------

\* The title createSession gives a session
NewConversation ==
  <<"N","e","w"," ","c","o","n","v","e","r","s","a","t","i","o","n">>

\* Longest content appendMessage takes over as title unshortened
TitleMax ==
  40

\* The one character U+2026 appendMessage ends a shortened title with
Ellipsis ==
  "..."

\* The ids of the stored sessions
SessionIds(ss) ==
  { ss[i].id : i \in DOMAIN ss }

\* Mutation: an unknown id yields the messages of the newest session
getSessionMessages_newest(ss, id) ==
  IF id \in SessionIds(ss)
  THEN ss[CHOOSE i \in DOMAIN ss : ss[i].id = id].messages
  ELSE IF ss # <<>> THEN ss[1].messages ELSE <<>>

\* getSession(id)?.messages ?? [] : the stored messages of a session, the
\* empty list when find returns no session
getSessionMessages(ss, id) ==
  IF id \in SessionIds(ss)
  THEN ss[CHOOSE i \in DOMAIN ss : ss[i].id = id].messages
  ELSE <<>>

\* createSession: a session with a fresh id is put in front (unshift)
createSession(ss, id) ==
  <<[id |-> id, title |-> NewConversation, messages |-> <<>>]>> \o ss

\* deleteSession: sessions.filter((s) => s.id !== sessionId)
deleteSession(ss, id) ==
  SelectSeq(ss, LAMBDA s : s.id # id)

\* appendMessage: nothing when the session is not stored; otherwise the
\* message is pushed, a first user message becomes the title, and the list
\* is saved (updatedAt is not modelled)
appendMessage(ss, id, message) ==
  IF id \notin SessionIds(ss)
  THEN ss
  ELSE LET k == CHOOSE i \in DOMAIN ss : ss[i].id = id
           session == ss[k]
           title ==
             IF session.title = NewConversation /\ message.role = "user"
             THEN IF Len(message.content) > TitleMax
                  THEN Append(SubSeq(message.content, 1, TitleMax), Ellipsis)
                  ELSE message.content
             ELSE session.title
       IN [ss EXCEPT ![k] =
             [id |-> id, title |-> title,
              messages |-> Append(session.messages, message)]]

\* Mutation: the backend id stored last is returned, whatever its key
getBackendSessionId_lastEntry(map, frontendSessionId) ==
  IF map # <<>> THEN map[Len(map)][2] ELSE 0

\* getBackendSessionId: map[frontendSessionId] ?? null (0)
getBackendSessionId(map, frontendSessionId) ==
  IF \E i \in DOMAIN map : map[i][1] = frontendSessionId
  THEN map[CHOOSE i \in DOMAIN map : map[i][1] = frontendSessionId][2]
  ELSE 0

\* setBackendSessionId: map[frontendSessionId] = backendSessionId; a new key
\* is added after the others, an old key keeps its place
setBackendSessionId(map, frontendSessionId, backendSessionId) ==
  IF \E i \in DOMAIN map : map[i][1] = frontendSessionId
  THEN [i \in DOMAIN map |->
          IF map[i][1] = frontendSessionId
          THEN <<frontendSessionId, backendSessionId>>
          ELSE map[i]]
  ELSE Append(map, <<frontendSessionId, backendSessionId>>)

\* removeBackendSessionId: delete map[frontendSessionId]
removeBackendSessionId(map, frontendSessionId) ==
  SelectSeq(map, LAMBDA e : e[1] # frontendSessionId)

\* ------------------------------------------------------------------------
\* App.tsx : session handlers and routes
\* ------------------------------------------------------------------------

\* Sessions ever created
MaxSessions ==
  2

\* Sends ever started
MaxTurns ==
  2

\* What unmounting ChatInterface does to the state of the view, and what a
\* view mounted later starts from: the component state is gone, the calls
\* of handleSend suspended at an await go on without a view
unmountChat ==
  /\ chatMounted' = FALSE
  /\ sessionId' = 0
  /\ messages' = <<>>
  /\ activeAgent' = "advisor"
  /\ loading' = FALSE
  /\ inflight' = { [r EXCEPT !.mounted = FALSE] : r \in inflight }

\* The route /assistant is rendered (handleStartChat, or the sidebar link):
\* ensureSession creates a session when none is active, ChatInterface
\* mounts and reads the messages of the session
handleStartChat ==
  /\ ~chatMounted
  /\ IF activeSessionId = 0
     THEN /\ nextSession <= MaxSessions
          /\ sessions' = createSession(sessions, nextSession)
          /\ activeSessionKey' = nextSession
          /\ activeSessionId' = nextSession
          /\ nextSession' = nextSession + 1
          /\ lastSuccess' = Append(lastSuccess, 0)
     ELSE UNCHANGED <<sessions, activeSessionKey, activeSessionId,
                      nextSession, lastSuccess>>
  /\ chatMounted' = TRUE
  /\ sessionId' = activeSessionId'
  /\ messages' = getSessionMessages(sessions', activeSessionId')
  /\ UNCHANGED <<text, detected, activeAgent, loading, tickerLastIndex,
                 backendSessionMap, inflight, nextTurn, lastReply,
                 probeVars, routerVars, storeVars, ledgerVars, restVars>>

\* Another route is rendered: ChatInterface unmounts
leaveAssistant ==
  /\ chatMounted
  /\ unmountChat
  /\ UNCHANGED <<text, detected, tickerLastIndex, sessions, activeSessionKey,
                 backendSessionMap, activeSessionId, nextTurn, nextSession,
                 lastReply, lastSuccess,
                 probeVars, routerVars, storeVars, ledgerVars, restVars>>

\* handleNewSession: createSession, then /assistant with the new session;
\* a mounted ChatInterface gets the new sessionId and resets its messages
handleNewSession ==
  /\ nextSession <= MaxSessions
  /\ sessions' = createSession(sessions, nextSession)
  /\ activeSessionKey' = nextSession
  /\ activeSessionId' = nextSession
  /\ nextSession' = nextSession + 1
  /\ lastSuccess' = Append(lastSuccess, 0)
  /\ chatMounted' = TRUE
  /\ sessionId' = nextSession
  /\ messages' = <<>>
  /\ UNCHANGED <<text, detected, activeAgent, loading, tickerLastIndex,
                 backendSessionMap, inflight, nextTurn, lastReply,
                 probeVars, routerVars, storeVars, ledgerVars, restVars>>

\* handleSessionSelect(id) on a session the sidebar lists: the session
\* becomes the active one; ChatInterface mounts, or its effect on sessionId
\* reloads the messages when the id changed
handleSessionSelect(id) ==
  /\ id \in SessionIds(sessions)
  /\ activeSessionKey' = id
  /\ activeSessionId' = id
  /\ chatMounted' = TRUE
  /\ sessionId' = id
  /\ messages' = IF chatMounted /\ sessionId = id
                 THEN messages
                 ELSE getSessionMessages(sessions, id)
  /\ UNCHANGED <<text, detected, activeAgent, loading, tickerLastIndex,
                 sessions, backendSessionMap, inflight, nextTurn,
                 nextSession, lastReply, lastSuccess,
                 probeVars, routerVars, storeVars, ledgerVars, restVars>>

\* handleDeleteSession(id): deleteSession removes the session, the active
\* session item when it names the session, and its backend session
\* mapping; deleting the active session shows the dashboard
handleDeleteSession(id) ==
  /\ id \in SessionIds(sessions)
  /\ sessions' = deleteSession(sessions, id)
  /\ activeSessionKey' = IF activeSessionKey = id THEN 0 ELSE activeSessionKey
  /\ backendSessionMap' = removeBackendSessionId(backendSessionMap, id)
  /\ IF activeSessionId = id
     THEN /\ activeSessionId' = 0
          /\ unmountChat
     ELSE UNCHANGED <<activeSessionId, chatMounted, sessionId, messages,
                      activeAgent, loading, inflight>>
  /\ UNCHANGED <<text, detected, tickerLastIndex, nextTurn, nextSession,
                 lastReply, lastSuccess,
                 probeVars, routerVars, storeVars, ledgerVars, restVars>>

\* deleteSession(id) run by the application in a second tab: the storage
\* items change, the React state of this tab does not
otherTabDeleteSession(id) ==
  /\ id \in SessionIds(sessions)
  /\ sessions' = deleteSession(sessions, id)
  /\ activeSessionKey' = IF activeSessionKey = id THEN 0 ELSE activeSessionKey
  /\ backendSessionMap' = removeBackendSessionId(backendSessionMap, id)
  /\ UNCHANGED <<text, detected, activeAgent, loading, tickerLastIndex,
                 activeSessionId, chatMounted, sessionId, messages, inflight,
                 nextTurn, nextSession, lastReply, lastSuccess,
                 probeVars, routerVars, storeVars, ledgerVars, restVars>>

\* ------------------------------------------------------------------------
\* components/ChatInterface.tsx : handleSend
\* ------------------------------------------------------------------------

\* res.answer, the text of an /ask response
Answer ==
  <<"a","n","s","w","e","r">>

\* The user message of handleSend; turn and role stand for its fresh id
userMsg(turn, content) ==
  [turn |-> turn, role |-> "user", content |-> content, agent |-> NONE]

\* The assistant message of handleSend
aiMsg(turn, confirmedAgent) ==
  [turn |-> turn, role |-> "assistant", content |-> Answer,
   agent |-> confirmedAgent]

\* handleSend up to the await of askQuestion: the agent is guessed, the
\* user message is shown and stored, the backend session id of the session
\* is read and sent with the question. The call keeps the sessionId of the
\* render it was created in. The error banner, the input field and the
\* backend status light are not part of the state of this model; text,
\* detected and the probe variables record what detectAgent was given and
\* what it returned.
handleSend(input) ==
  LET t == trim(input)
      d == detectAgent(t, tickerLastIndex)
      m == userMsg(nextTurn, t)
  IN /\ chatMounted
     /\ t # <<>>
     /\ ~loading
     /\ nextTurn <= MaxTurns
     /\ text' = t
     /\ detected' = d.agent
     /\ activeAgent' = d.agent
     /\ tickerLastIndex' = d.lastIndex
     /\ messages' = Append(messages, m)
     /\ sessions' = appendMessage(sessions, sessionId, m)
     /\ loading' = TRUE
     /\ inflight' = inflight \cup
          {[turn |-> nextTurn, sid |-> sessionId, pc |-> "ask",
            asked |-> getBackendSessionId(backendSessionMap, sessionId),
            agent |-> NONE, session_id |-> 0, mounted |-> TRUE]}
     /\ nextTurn' = nextTurn + 1
     /\ IF t = probe
        THEN /\ probeAgent' = IF probeAgent = NONE THEN d.agent ELSE probeAgent
             /\ probeRuns' = Min(probeRuns + 1, MaxProbeRuns)
        ELSE UNCHANGED <<probeAgent, probeRuns>>
     /\ UNCHANGED <<probe, activeSessionKey, backendSessionMap,
                    activeSessionId, chatMounted, sessionId, nextSession,
                    lastReply, lastSuccess,
                    routerVars, storeVars, ledgerVars, restVars>>

\* ph.holdings.map((h) => ({ticker, shares, avg_cost})) of handleSend and
\* the same map of syncFromSQLite
mapHoldings(rows) ==
  [i \in DOMAIN rows |->
     [ticker |-> rows[i].ticker, shares |-> rows[i].shares,
      avg_cost |-> rows[i].avg_cost]]

\* The session_id of the response to a call: the id the question carried,
\* or the id of the backend session opened for it
resSessionId(r) ==
  IF r.asked = 0 THEN r.turn ELSE r.asked

\* The end of a call of handleSend that got its response: the assistant
\* message is shown by the view the call belongs to, if that is still
\* mounted, and stored under the sessionId of the call; finally
\* setLoading(false)
handleSendFinish(r) ==
  LET m == aiMsg(r.turn, backendAgentToType(r.agent))
  IN /\ messages' = IF r.mounted THEN Append(messages, m) ELSE messages
     /\ sessions' = appendMessage(sessions, r.sid, m)
     /\ loading' = IF r.mounted THEN FALSE ELSE loading

\* Mutation: the guess of detectAgent stays the active agent
handleSendResolved_keepsGuess(r, agent) ==
  LET res == [r EXCEPT !.agent = agent, !.session_id = resSessionId(r)]
  IN /\ r \in inflight
     /\ r.pc = "ask"
     /\ backendSessionMap' =
          setBackendSessionId(backendSessionMap, r.sid, res.session_id)
     /\ lastReply' = [turn |-> r.turn, agent |-> agent, mounted |-> r.mounted]
     /\ lastSuccess' = [lastSuccess EXCEPT ![r.sid] = res.session_id]
     /\ UNCHANGED activeAgent
     /\ IF agent = "trading_agent"
        THEN /\ inflight' = (inflight \ {r}) \cup {[res EXCEPT !.pc = "holdings"]}
             /\ UNCHANGED <<messages, sessions, loading>>
        ELSE /\ inflight' = inflight \ {r}
             /\ handleSendFinish(res)
     /\ UNCHANGED <<text, detected, tickerLastIndex, activeSessionKey,
                    activeSessionId, chatMounted, sessionId, nextTurn,
                    nextSession, probeVars, routerVars, storeVars,
                    ledgerVars, restVars>>

\* handleSend after askQuestion resolved with res.agent = agent: the
\* backend session id is stored for the sessionId of the call and the agent
\* is confirmed; a trading_agent reply goes on to fetch the holdings, any
\* other reply completes the send
handleSendResolved(r, agent) ==
  LET res == [r EXCEPT !.agent = agent, !.session_id = resSessionId(r)]
  IN /\ r \in inflight
     /\ r.pc = "ask"
     /\ backendSessionMap' =
          setBackendSessionId(backendSessionMap, r.sid, res.session_id)
     /\ lastReply' = [turn |-> r.turn, agent |-> agent, mounted |-> r.mounted]
     /\ lastSuccess' = [lastSuccess EXCEPT ![r.sid] = res.session_id]
     /\ activeAgent' = IF r.mounted THEN backendAgentToType(agent)
                       ELSE activeAgent
     /\ IF agent = "trading_agent"
        THEN /\ inflight' = (inflight \ {r}) \cup {[res EXCEPT !.pc = "holdings"]}
             /\ UNCHANGED <<messages, sessions, loading>>
        ELSE /\ inflight' = inflight \ {r}
             /\ handleSendFinish(res)
     /\ UNCHANGED <<text, detected, tickerLastIndex, activeSessionKey,
                    activeSessionId, chatMounted, sessionId, nextTurn,
                    nextSession, probeVars, routerVars, storeVars,
                    ledgerVars, restVars>>

\* handleSend after getPortfolioHoldings settled: a non-empty list replaces
\* the stored holdings, a failed fetch is ignored; the send completes
handleSendHoldings(r, ok) ==
  /\ r \in inflight
  /\ r.pc = "holdings"
  /\ IF ok /\ Len(ledger) > 0
     THEN holdings' = mapHoldings(ledger)
     ELSE UNCHANGED holdings
  /\ inflight' = inflight \ {r}
  /\ handleSendFinish(r)
  /\ UNCHANGED <<text, detected, activeAgent, tickerLastIndex,
                 activeSessionKey, backendSessionMap, activeSessionId,
                 chatMounted, sessionId, nextTurn, nextSession, lastReply,
                 lastSuccess, probeVars, routerVars, piError, sharedData,
                 ledgerVars, restVars>>

\* Mutation: no finally clause, a failed ask leaves loading set
handleSendRejected_keepsLoading(r) ==
  /\ r \in inflight
  /\ r.pc = "ask"
  /\ inflight' = inflight \ {r}
  /\ UNCHANGED <<text, detected, activeAgent, loading, tickerLastIndex,
                 sessions, activeSessionKey, backendSessionMap,
                 activeSessionId, chatMounted, sessionId, messages, nextTurn,
                 nextSession, lastReply, lastSuccess,
                 probeVars, routerVars, storeVars, ledgerVars, restVars>>

\* handleSend after askQuestion threw: catch and finally
handleSendRejected(r) ==
  /\ r \in inflight
  /\ r.pc = "ask"
  /\ inflight' = inflight \ {r}
  /\ loading' = IF r.mounted THEN FALSE ELSE loading
  /\ UNCHANGED <<text, detected, activeAgent, tickerLastIndex, sessions,
                 activeSessionKey, backendSessionMap, activeSessionId,
                 chatMounted, sessionId, messages, nextTurn, nextSession,
                 lastReply, lastSuccess,
                 probeVars, routerVars, storeVars, ledgerVars, restVars>>

\* The conversation shown has no stored message yet
FreshConversation ==
  getSessionMessages(sessions, sessionId) = <<>>

InitDetect ==
  /\ InitChat
  /\ InitProbe
  /\ InitRouter
  /\ InitStore
  /\ InitLedger
  /\ InitLoop
  /\ InitOrch

\* Every question is asked in a conversation of its own: the user opens
\* the assistant, asks, and deletes the conversation
NextDetect ==
  \/ handleStartChat
  \/ \E input \in Questions : FreshConversation /\ handleSend(input)
  \/ \E r \in inflight, agent \in RoutingTableAgents : handleSendResolved(r, agent)
  \/ \E r \in inflight, ok \in BOOLEAN : handleSendHoldings(r, ok)
  \/ \E r \in inflight : handleSendRejected(r)
  \/ \E id \in SessionIds(sessions) : inflight = {} /\ handleDeleteSession(id)

SpecDetect ==
  InitDetect /\ [][NextDetect]_vars

\* An input of white space only
Blank ==
  <<" ", " ">>

\* What the user sends in the conversations
ChatQuestions ==
  {F_wash, Blank}

\* The agent names the backend answers with
ReplyAgents ==
  {"tax_education_agent"}

\* The chat in one tab: conversations are opened, left, switched and
\* deleted while questions are asked and answered
NextChat ==
  \/ handleStartChat
  \/ leaveAssistant
  \/ handleNewSession
  \/ \E id \in SessionIds(sessions) : handleSessionSelect(id)
  \/ \E id \in SessionIds(sessions) : handleDeleteSession(id)
  \/ \E input \in ChatQuestions : handleSend(input)
  \/ \E r \in inflight, agent \in ReplyAgents : handleSendResolved(r, agent)
  \/ \E r \in inflight : handleSendRejected(r)

InitNoDetect ==
  /\ InitChat
  /\ InitNoProbe
  /\ InitRouter
  /\ InitStore
  /\ InitLedger
  /\ InitLoop
  /\ InitOrch

SpecChat ==
  InitNoDetect /\ [][NextChat]_vars

\* The promise of fetch settles: a pending ask is answered or fails
askSettles ==
  \/ \E r \in inflight, agent \in ReplyAgents : handleSendResolved(r, agent)
  \/ \E r \in inflight : handleSendRejected(r)

\* The chat with every pending ask settling in the end
SpecChatFair ==
  InitNoDetect /\ [][NextChat]_vars /\ WF_vars(askSettles)

\* The same with a second tab of the application deleting conversations
NextShared ==
  \/ NextChat
  \/ \E id \in SessionIds(sessions) : otherTabDeleteSession(id)

SpecShared ==
  InitNoDetect /\ [][NextShared]_vars

\* ------------------------------------------------------------------------
\* Backend Router (core/router.py): route(question, history)
\* ------------------------------------------------------------------------

\* RoutingDecision.confidence runs from 0.0 to 1.0; it is kept in tenths
ConfidenceScale ==
  10

\* The configured floor below which an LLM classification is not accepted
\* (in tenths)
ConfidenceFloor ==
  5

\* The ways the LLM classification call can fail
LLMFailures ==
  {"timeout", "malformed", "provider_error"}

\* The outcomes of the LLM classification call
LLMResults ==
  [kind : LLMFailures]
    \cup [kind : {"ok"}, agent : AgentType, confidence : 0..ConfidenceScale]

\* Step 2: whether the classification is used as the decision
LLMAccepted(r) ==
  /\ r.kind = "ok"
  /\ r.confidence >= ConfidenceFloor

\* Step 2: deterministic keyword scoring, first specialist in priority
\* order with a matching phrase, else the default specialist
keywordRoute(q) ==
  detectAgent(q, 0).agent

\* Mutation: every decision is labelled as coming from the LLM
routeDecision_alwaysLlm(q, r) ==
  IF r.kind = "ok" /\ r.confidence >= ConfidenceFloor
  THEN [agent_name |-> r.agent, confidence |-> r.confidence, source |-> "llm"]
  ELSE [agent_name |-> keywordRoute(q), confidence |-> 0, source |-> "llm"]

\* route(question, history) -> RoutingDecision, given the LLM outcome
routeDecision(q, r) ==
  IF LLMAccepted(r)
  THEN [agent_name |-> r.agent, confidence |-> r.confidence, source |-> "llm"]
  ELSE [agent_name |-> keywordRoute(q), confidence |-> 0,
        source |-> "keyword-fallback"]

\* Step 1: route is called and issues the LLM classification call
routeBegin(q) ==
  /\ routerPc \in {"idle", "done"}
  /\ routerPc' = "llm"
  /\ question' = q
  /\ llmResult' = NoResult
  /\ decision' = NoDecision
  /\ UNCHANGED <<chatVars, probeVars, restVars, storeVars, ledgerVars>>

\* Steps 2 and 3: the LLM call ends with r and the decision is returned
routeReturn(r) ==
  /\ routerPc = "llm"
  /\ routerPc' = "done"
  /\ llmResult' = r
  /\ decision' = routeDecision(question, r)
  /\ UNCHANGED <<question, chatVars, probeVars, restVars, storeVars, ledgerVars>>

InitRoute ==
  /\ InitChat
  /\ InitNoProbe
  /\ InitRouter
  /\ InitStore
  /\ InitLedger
  /\ InitLoop
  /\ InitOrch

NextRoute ==
  \/ \E q \in Fragments : routeBegin(q)
  \/ \E r \in LLMResults : routeReturn(r)

SpecRoute ==
  InitRoute /\ [][NextRoute]_vars

\* ------------------------------------------------------------------------
\* Numbers: Holding.avg_cost is an exact fraction num/den, den > 0,
\* standing for the JavaScript number; num = den = 0 stands for NaN
\* ------------------------------------------------------------------------

Abs(n) ==
  IF n < 0 THEN -n ELSE n

RECURSIVE GCD(_, _)
GCD(a, b) ==
  IF b = 0 THEN a ELSE GCD(b, a % b)

NaNRat ==
  [num |-> 0, den |-> 0]

\* The fraction n/d in lowest terms
Rat(n, d) ==
  IF d = 0 THEN NaNRat
  ELSE LET g == GCD(Abs(n), d)
       IN [num |-> n \div g, den |-> d \div g]

\* a * k for an integer k
RatTimes(a, k) ==
  Rat(a.num * k, a.den)

\* a + b
RatPlus(a, b) ==
  Rat(a.num * b.den + b.num * a.den, a.den * b.den)

\* a / k for an integer k >= 0
RatOver(a, k) ==
  Rat(a.num, a.den * k)

IsDigit(c) ==
  c \in Range(DIGITS)

DigitValue(c) ==
  (CHOOSE i \in DOMAIN DIGITS : DIGITS[i] = c) - 1

\* The longest prefix of s made of digits
RECURSIVE DigitPrefix(_)
DigitPrefix(s) ==
  IF s = <<>> \/ ~IsDigit(Head(s)) THEN <<>>
  ELSE <<Head(s)>> \o DigitPrefix(Tail(s))

RECURSIVE DecimalValue(_, _)
DecimalValue(ds, acc) ==
  IF ds = <<>> THEN acc
  ELSE DecimalValue(Tail(ds), 10 * acc + DigitValue(Head(ds)))

RECURSIVE trimStart(_)
trimStart(s) ==
  IF s # <<>> /\ IsSpace(Head(s)) THEN trimStart(Tail(s)) ELSE s

\* parseFloat on texts without fraction or exponent: leading white space
\* is skipped, a sign and the longest run of digits are read, whatever
\* follows is ignored, and no digits at all give NaN
parseFloat(s) ==
  LET t      == trimStart(s)
      signed == t # <<>> /\ Head(t) \in {"-", "+"}
      body   == IF signed THEN Tail(t) ELSE t
      ds     == DigitPrefix(body)
      v      == DecimalValue(ds, 0)
  IN IF ds = <<>> THEN [nan |-> TRUE, val |-> 0]
     ELSE [nan |-> FALSE, val |-> IF Head(t) = "-" THEN -v ELSE v]

isNaN(x) ==
  x.nan

\* The value of an <input type="number"> after the user typed raw: the
\* text if it is a valid floating-point number, else the empty string
numberInputValue(raw) ==
  LET body == IF raw # <<>> /\ Head(raw) = "-" THEN Tail(raw) ELSE raw
  IN IF body # <<>> /\ DigitPrefix(body) = body THEN raw ELSE <<>>

\* ------------------------------------------------------------------------
\* lib/holdingsStore.ts
\* ------------------------------------------------------------------------

\* existing.findIndex((e) => e.ticker.toUpperCase() === h.ticker.toUpperCase())
findIndex(existing, ticker) ==
  LET m == { i \in DOMAIN existing :
               toUpperCase(existing[i].ticker) = toUpperCase(ticker) }
  IN IF m = {} THEN -1 ELSE CHOOSE i \in m : \A j \in m : i <= j

\* Mutation: the cost of the old shares is not weighted by their number
addHolding_unweighted(existing, h) ==
  LET idx == findIndex(existing, h.ticker)
  IN IF idx # -1
     THEN LET prev == existing[idx]
              totalShares == prev.shares + h.shares
          IN [existing EXCEPT ![idx] =
                [ticker |-> toUpperCase(h.ticker),
                 shares |-> totalShares,
                 avg_cost |-> RatOver(RatPlus(prev.avg_cost,
                                              RatTimes(h.avg_cost, h.shares)),
                                      totalShares)]]
     ELSE Append(existing, [h EXCEPT !.ticker = toUpperCase(h.ticker)])

\* addHolding(h): the list saved, given the list read
addHolding(existing, h) ==
  LET idx == findIndex(existing, h.ticker)
  IN IF idx # -1
     THEN LET prev == existing[idx]
              totalShares == prev.shares + h.shares
          IN [existing EXCEPT ![idx] =
                [ticker |-> toUpperCase(h.ticker),
                 shares |-> totalShares,
                 avg_cost |-> RatOver(RatPlus(RatTimes(prev.avg_cost, prev.shares),
                                              RatTimes(h.avg_cost, h.shares)),
                                      totalShares)]]
     ELSE Append(existing, [h EXCEPT !.ticker = toUpperCase(h.ticker)])

\* removeHolding(ticker): the list saved, given the list read
removeHolding(existing, ticker) ==
  SelectSeq(existing,
            LAMBDA h : toUpperCase(h.ticker) # toUpperCase(ticker))

\* clearHoldings(): the key is removed, getHoldings then reads []
clearHoldings ==
  /\ holdings' = <<>>
  /\ UNCHANGED <<piError, sharedData, chatVars, probeVars, restVars, routerVars, ledgerVars>>

\* ------------------------------------------------------------------------
\* components/PortfolioInput.tsx
\* ------------------------------------------------------------------------

\* Largest number of shares of one ticker the model lets a position reach
MaxShares ==
  30

\* Shares the list holds of the ticker
SharesOf(list, ticker) ==
  LET idx == findIndex(list, ticker)
  IN IF idx = -1 THEN 0 ELSE list[idx].shares

\* Mutation: only negative shares are refused
handleAdd_zeroAllowed(tickerTyped, sharesTyped, costTyped) ==
  LET t == toUpperCase(trim(toUpperCase(tickerTyped)))
      s == parseFloat(numberInputValue(sharesTyped))
      c == parseFloat(numberInputValue(costTyped))
  IN /\ IF t = <<>>
        THEN /\ piError' = "Enter a ticker symbol (e.g. AAPL)"
             /\ UNCHANGED holdings
        ELSE IF isNaN(s) \/ s.val < 0
        THEN /\ piError' = "Shares must be a positive number"
             /\ UNCHANGED holdings
        ELSE IF isNaN(c) \/ c.val <= 0
        THEN /\ piError' = "Avg cost must be a positive number"
             /\ UNCHANGED holdings
        ELSE /\ SharesOf(holdings, t) + s.val <= MaxShares
             /\ piError' = NULL
             /\ holdings' = addHolding(holdings,
                  [ticker |-> t, shares |-> s.val, avg_cost |-> Rat(c.val, 1)])
     /\ UNCHANGED <<sharedData, chatVars, probeVars, restVars, routerVars, ledgerVars>>

\* handleAdd with the texts typed into the ticker, shares and cost fields
handleAdd(tickerTyped, sharesTyped, costTyped) ==
  LET t == toUpperCase(trim(toUpperCase(tickerTyped)))
      s == parseFloat(numberInputValue(sharesTyped))
      c == parseFloat(numberInputValue(costTyped))
  IN /\ IF t = <<>>
        THEN /\ piError' = "Enter a ticker symbol (e.g. AAPL)"
             /\ UNCHANGED holdings
        ELSE IF isNaN(s) \/ s.val <= 0
        THEN /\ piError' = "Shares must be a positive number"
             /\ UNCHANGED holdings
        ELSE IF isNaN(c) \/ c.val <= 0
        THEN /\ piError' = "Avg cost must be a positive number"
             /\ UNCHANGED holdings
        ELSE /\ SharesOf(holdings, t) + s.val <= MaxShares
             /\ piError' = NULL
             /\ holdings' = addHolding(holdings,
                  [ticker |-> t, shares |-> s.val, avg_cost |-> Rat(c.val, 1)])
     /\ UNCHANGED <<sharedData, chatVars, probeVars, restVars, routerVars, ledgerVars>>

\* handleRemove(t) for a listed ticker
handleRemove(ticker) ==
  /\ holdings' = removeHolding(holdings, ticker)
  /\ UNCHANGED <<piError, sharedData, chatVars, probeVars, restVars, routerVars, ledgerVars>>

\* addHolding(h) called in a second tab, up to the return of getHoldings:
\* the tabs run in parallel on the same storage area and nothing locks it
\* between the read and the write of addHolding
otherTabGetHoldings(h) ==
  /\ otherTab.pc = "idle"
  /\ SharesOf(holdings, h.ticker) + h.shares <= MaxShares
  /\ otherTab' = [pc |-> "save", existing |-> holdings, h |-> h]
  /\ UNCHANGED <<storeVars, chatVars, probeVars, routerVars, ledgerVars,
                 summaryVars, loopVars, orchVars>>

\* addHolding(h) of the second tab from the merge to saveHoldings: the
\* list it read, with h merged in, replaces the stored list
otherTabSaveHoldings ==
  /\ otherTab.pc = "save"
  /\ holdings' = addHolding(otherTab.existing, otherTab.h)
  /\ otherTab' = TabIdle
  /\ UNCHANGED <<piError, sharedData, chatVars, probeVars, routerVars,
                 ledgerVars, summaryVars, loopVars, orchVars>>

\* ------------------------------------------------------------------------
\* Backend LedgerStore: apply_buy, apply_sell
\* ------------------------------------------------------------------------

\* Largest number of Trade rows the model lets the ledger reach
MaxTrades ==
  3

\* apply_buy(session_id, ticker, shares, price)
apply_buy(ticker, shares, price) ==
  LET t == toUpperCase(ticker)
      idx == findIndex(ledger, t)
      old == IF idx = -1 THEN 0 ELSE ledger[idx].shares
  IN /\ nTrades < MaxTrades
     /\ IF shares <= 0
        THEN /\ ledgerResult' = "InvalidOrderError"
             /\ UNCHANGED <<ledger, nTrades, soldOut>>
        ELSE /\ old + shares <= MaxShares
             /\ ledgerResult' = "ok"
             /\ ledger' =
                  IF idx = -1
                  THEN Append(ledger, [ticker |-> t, shares |-> shares,
                                       avg_cost |-> Rat(price, 1)])
                  ELSE [ledger EXCEPT ![idx] =
                          [ticker |-> t,
                           shares |-> old + shares,
                           avg_cost |-> RatOver(
                              RatPlus(RatTimes(ledger[idx].avg_cost, old),
                                      RatTimes(Rat(price, 1), shares)),
                              old + shares)]]
             /\ nTrades' = nTrades + 1
             /\ soldOut' = soldOut \ {t}
     /\ UNCHANGED <<chatVars, probeVars, restVars, routerVars, storeVars>>

\* Mutation: the balance is not checked before the decrement
apply_sell_unchecked(ticker, shares, price) ==
  LET t == toUpperCase(ticker)
      idx == findIndex(ledger, t)
      old == IF idx = -1 THEN 0 ELSE ledger[idx].shares
  IN /\ nTrades < MaxTrades
     /\ shares > 0
     /\ IF idx = -1
        THEN /\ ledgerResult' = "InsufficientSharesError"
             /\ UNCHANGED <<ledger, nTrades, soldOut>>
        ELSE /\ ledgerResult' = "ok"
             /\ ledger' =
                  IF old = shares
                  THEN SelectSeq(ledger, LAMBDA h : h.ticker # t)
                  ELSE [ledger EXCEPT ![idx].shares = old - shares]
             /\ nTrades' = nTrades + 1
             /\ soldOut' = IF old = shares THEN soldOut \cup {t} ELSE soldOut
     /\ UNCHANGED <<chatVars, probeVars, restVars, routerVars, storeVars>>

\* apply_sell(session_id, ticker, shares, price), for shares > 0
apply_sell(ticker, shares, price) ==
  LET t == toUpperCase(ticker)
      idx == findIndex(ledger, t)
      old == IF idx = -1 THEN 0 ELSE ledger[idx].shares
  IN /\ nTrades < MaxTrades
     /\ shares > 0
     /\ IF shares > old
        THEN /\ ledgerResult' = "InsufficientSharesError"
             /\ UNCHANGED <<ledger, nTrades, soldOut>>
        ELSE /\ ledgerResult' = "ok"
             /\ ledger' =
                  IF old = shares
                  THEN SelectSeq(ledger, LAMBDA h : h.ticker # t)
                  ELSE [ledger EXCEPT ![idx].shares = old - shares]
             /\ nTrades' = nTrades + 1
             /\ soldOut' = IF old = shares THEN soldOut \cup {t} ELSE soldOut
     /\ UNCHANGED <<chatVars, probeVars, restVars, routerVars, storeVars>>

\* ------------------------------------------------------------------------
\* lib/hooks/usePortfolioSummary.ts and components/PortfolioChart.tsx
\* ------------------------------------------------------------------------

\* Requests for the summary ever sent
MaxFetches ==
  2

\* Steps of the clock
MaxTicks ==
  2

\* Mutation: the recency walk comes first, the active session is not asked
resolveBackendSid_recencyOnly(active, ss, map) ==
  LET mapped == { i \in DOMAIN ss : getBackendSessionId(map, ss[i].id) # 0 }
  IN IF mapped # {}
     THEN getBackendSessionId(
            map, ss[CHOOSE i \in mapped : \A j \in mapped : i <= j].id)
     ELSE IF map # <<>> THEN map[Len(map)][2] ELSE 0

\* resolveBackendSid: the backend id of the active session; else that of
\* the first stored session that has one; else the last value of the map;
\* else null (0)
resolveBackendSid(active, ss, map) ==
  LET mapped == { i \in DOMAIN ss : getBackendSessionId(map, ss[i].id) # 0 }
  IN IF active # 0 /\ getBackendSessionId(map, active) # 0
     THEN getBackendSessionId(map, active)
     ELSE IF mapped # {}
          THEN getBackendSessionId(
                 map, ss[CHOOSE i \in mapped : \A j \in mapped : i <= j].id)
          ELSE IF map # <<>> THEN map[Len(map)][2] ELSE 0

\* The backend session refresh asks for in the current state
sessionNow ==
  resolveBackendSid(activeSessionKey, sessions, backendSessionMap)

\* Mutation: a cached summary is served whatever its age
cacheFresh_noTTL ==
  ~cached.isNull

\* cached && (Date.now() - lastFetchedAt) < TTL
cacheFresh ==
  /\ ~cached.isNull
  /\ now - lastFetchedAt < TTL

\* refresh(force) up to the fetch, in an instance of the hook whose state
\* is data: no session gives null, a fresh cache is served unless forced,
\* otherwise GET /portfolio/summary/{sessionId} is sent and awaited
refreshFrom(force, data) ==
  IF sessionNow = 0
  THEN /\ sharedData' = NullSummary
       /\ refreshDid' = NULL
       /\ UNCHANGED <<fetches, nextFetch>>
  ELSE IF ~force /\ cacheFresh
       THEN /\ sharedData' = cached
            /\ refreshDid' = "cache"
            /\ UNCHANGED <<fetches, nextFetch>>
       ELSE /\ nextFetch <= MaxFetches
            /\ sharedData' = data
            /\ refreshDid' = "fetch"
            /\ fetches' = fetches \cup
                 {[id |-> nextFetch, sid |-> sessionNow, mounted |-> TRUE]}
            /\ nextFetch' = nextFetch + 1

\* refresh(force) called on the mounted hook
refresh(force) ==
  /\ refreshFrom(force, sharedData)
  /\ UNCHANGED <<cached, lastFetchedAt, now>>
  /\ UNCHANGED <<holdings, piError, chatVars, probeVars, routerVars,
                 ledgerVars, otherTab, loopVars, orchVars>>

\* A consumer of usePortfolioSummary mounts (Dashboard or PortfolioPage on
\* its route): useState(cached), then the effect calls refresh(). The
\* instance mounted before is gone, its requests go on without it
usePortfolioSummary ==
  /\ LET gone == { [f EXCEPT !.mounted = FALSE] : f \in fetches }
     IN IF sessionNow = 0
        THEN /\ sharedData' = NullSummary
             /\ refreshDid' = NULL
             /\ fetches' = gone
             /\ UNCHANGED nextFetch
        ELSE IF cacheFresh
             THEN /\ sharedData' = cached
                  /\ refreshDid' = "cache"
                  /\ fetches' = gone
                  /\ UNCHANGED nextFetch
             ELSE /\ nextFetch <= MaxFetches
                  /\ sharedData' = cached
                  /\ refreshDid' = "fetch"
                  /\ fetches' = gone \cup
                       {[id |-> nextFetch, sid |-> sessionNow,
                         mounted |-> TRUE]}
                  /\ nextFetch' = nextFetch + 1
  /\ UNCHANGED <<cached, lastFetchedAt, now>>
  /\ UNCHANGED <<holdings, piError, chatVars, probeVars, routerVars,
                 ledgerVars, otherTab, loopVars, orchVars>>

\* How the request of a refresh ends
FetchOutcomes ==
  {"ok", "status", "error"}

\* refresh after the fetch: a 2xx response is cached, stamped and given
\* to the instance; another status gives null; a network error changes
\* nothing. The rows of the ledger stand for the holdings of the session
\* asked for, sid names that session
refreshSettled(f, outcome) ==
  LET json == [isNull |-> FALSE, sid |-> f.sid, holdings |-> ledger]
  IN /\ f \in fetches
     /\ outcome \in FetchOutcomes
     /\ fetches' = fetches \ {f}
     /\ IF outcome = "ok"
        THEN /\ cached' = json
             /\ lastFetchedAt' = now
             /\ sharedData' = IF f.mounted THEN json ELSE sharedData
        ELSE /\ UNCHANGED <<cached, lastFetchedAt>>
             /\ sharedData' = IF f.mounted /\ outcome = "status"
                              THEN NullSummary ELSE sharedData
     /\ UNCHANGED <<now, nextFetch, refreshDid>>
     /\ UNCHANGED <<holdings, piError, chatVars, probeVars, routerVars,
                    ledgerVars, otherTab, loopVars, orchVars>>

\* Time passes
tick(d) ==
  /\ d > 0
  /\ now + d <= TTL + MaxTicks * (TTL \div 2)
  /\ now' = now + d
  /\ UNCHANGED <<cached, lastFetchedAt, fetches, nextFetch, refreshDid>>
  /\ UNCHANGED <<storeVars, chatVars, probeVars, routerVars, ledgerVars,
                 otherTab, loopVars, orchVars>>

\* The page is loaded again at the home route: module and component state
\* start over, the storage items stay. The calls suspended at an await are
\* gone with the old page; PortfolioChart and Dashboard mount and call
\* refresh() on the empty cache
pageLoad ==
  /\ cached' = NullSummary
  /\ lastFetchedAt' = 0
  /\ sharedData' = NullSummary
  /\ IF sessionNow = 0
     THEN /\ fetches' = {}
          /\ refreshDid' = NULL
          /\ UNCHANGED nextFetch
     ELSE /\ nextFetch <= MaxFetches
          /\ refreshDid' = "fetch"
          /\ fetches' = {[id |-> nextFetch, sid |-> sessionNow,
                          mounted |-> TRUE]}
          /\ nextFetch' = nextFetch + 1
  /\ activeSessionId' = activeSessionKey
  /\ chatMounted' = FALSE
  /\ sessionId' = 0
  /\ messages' = <<>>
  /\ activeAgent' = "advisor"
  /\ loading' = FALSE
  /\ inflight' = {}
  /\ UNCHANGED <<now, holdings, piError, text, detected, tickerLastIndex,
                 sessions, activeSessionKey, backendSessionMap, nextTurn,
                 nextSession, lastReply, lastSuccess, probeVars, routerVars,
                 ledgerVars, otherTab, loopVars, orchVars>>

\* The tickers of a list of holdings
Tickers(list) ==
  { list[i].ticker : i \in DOMAIN list }

\* Mutation: the local holdings are appended without the localOnly filter
syncMerge_noFilter(sqliteHoldings, local) ==
  sqliteHoldings \o local

\* syncFromSQLite: merged = [...sqliteHoldings, ...localOnly]
syncMerge(sqliteHoldings, local) ==
  LET sqliteTickers == Tickers(sqliteHoldings)
      localOnly == SelectSeq(local, LAMBDA h : h.ticker \notin sqliteTickers)
  IN sqliteHoldings \o localOnly

\* syncFromSQLite, run by the effect of PortfolioChart
syncFromSQLite ==
  /\ IF sharedData.isNull
     THEN UNCHANGED holdings
     ELSE LET sqliteHoldings == mapHoldings(sharedData.holdings)
          IN IF Len(sqliteHoldings) > 0
             THEN holdings' = syncMerge(sqliteHoldings, holdings)
             ELSE UNCHANGED holdings
  /\ UNCHANGED <<piError, sharedData, chatVars, probeVars, restVars, routerVars, ledgerVars>>

\* ------------------------------------------------------------------------
\* Inputs and specifications of the holdings store and the ledger
\* ------------------------------------------------------------------------

T_AAPL ==
  <<"A","A","P","L">>

T_aapl ==
  <<"a","a","p","l">>

T_NVDA ==
  <<"N","V","D","A">>

\* Texts typed into the ticker field
TickerTexts ==
  {<<" ">>, T_aapl, T_NVDA}

\* Texts typed into the shares field
SharesTexts ==
  {<<>>, <<"a","b","c">>, <<"0">>, <<"-","5">>, <<"1","0">>,
   <<"1","0","a","b","c">>}

\* Texts typed into the cost field
CostTexts ==
  {<<"0">>, <<"1","0","0">>, <<"2","0","0">>}

InitHoldings ==
  /\ InitChat
  /\ InitNoProbe
  /\ InitRouter
  /\ InitStore
  /\ InitLedger
  /\ InitLoop
  /\ InitOrch

\* The holdings store driven from the PortfolioInput panel
NextStore ==
  \/ \E t \in TickerTexts, s \in SharesTexts, c \in CostTexts : handleAdd(t, s, c)
  \/ \E t \in {T_AAPL, T_NVDA} : handleRemove(t)
  \/ clearHoldings

SpecStore ==
  InitHoldings /\ [][NextStore]_vars

\* Positions the second tab adds
TabHoldings ==
  { [ticker |-> t, shares |-> 10, avg_cost |-> Rat(c, 1)] :
      t \in {T_AAPL, T_NVDA}, c \in {100} }

\* The holdings store with the application open in two tabs
NextTabs ==
  \/ \E t \in {T_aapl, T_NVDA} : handleAdd(t, <<"1","0">>, <<"2","0","0">>)
  \/ \E t \in {T_AAPL, T_NVDA} : handleRemove(t)
  \/ \E h \in TabHoldings : otherTabGetHoldings(h)
  \/ otherTabSaveHoldings

SpecTabs ==
  InitHoldings /\ [][NextTabs]_vars

\* Orders sent to the ledger
LedgerTickers ==
  {T_aapl, T_NVDA}

BuyShares ==
  {-5, 0, 10}

SellShares ==
  {5, 10, 15}

Prices ==
  {150, 200}

NextLedger ==
  \/ \E t \in LedgerTickers, n \in BuyShares, p \in Prices : apply_buy(t, n, p)
  \/ \E t \in LedgerTickers, n \in SellShares, p \in Prices : apply_sell(t, n, p)

SpecLedger ==
  InitHoldings /\ [][NextLedger]_vars

\* What the backend, the page and the chart do in both specifications
\* below: orders of 10 shares at 100 reach the ledger, asks of the chat are
\* answered by the trading agent and followed by the sync, the page is
\* loaded again, the summary arrives and the chart merges it
NextBackend ==
  \/ handleStartChat
  \/ \E r \in inflight : handleSendResolved(r, "trading_agent")
  \/ \E r \in inflight, ok \in BOOLEAN : handleSendHoldings(r, ok)
  \/ \E r \in inflight : handleSendRejected(r)
  \/ \E t \in {T_AAPL, T_NVDA} : apply_buy(t, 10, 100)
  \/ \E t \in {T_AAPL, T_NVDA} : apply_sell(t, 10, 100)
  \/ pageLoad
  \/ \E f \in fetches, outcome \in FetchOutcomes : refreshSettled(f, outcome)
  \/ syncFromSQLite

\* The store fed by the backend only, in a conversation with the trading
\* agent
NextTrade ==
  \/ handleSend(F_buy)
  \/ NextBackend

SpecTrade ==
  InitHoldings /\ [][NextTrade]_vars

\* The store fed by the backend and by the PortfolioInput panel, which
\* adds and removes positions; one message is sent per conversation
NextSync ==
  \/ FreshConversation /\ handleSend(F_buy)
  \/ NextBackend
  \/ \E t \in {T_aapl, T_NVDA} : handleAdd(t, <<"1","0">>, <<"2","0","0">>)
  \/ \E t \in {T_AAPL, T_NVDA} : handleRemove(t)
  \/ clearHoldings

SpecSync ==
  InitHoldings /\ [][NextSync]_vars

\* ------------------------------------------------------------------------
\* Keyword routing properties
\* ------------------------------------------------------------------------

\* The order in which detectAgent consults the specialists
CatalogueOrder ==
  <<"trader", "portfolio", "news", "stock", "analyst", "tax_pro", "planner">>

\* Whether the specialist has a trigger matching the message
HasTrigger(agent, message) ==
  LET q == toLowerCase(message)
  IN CASE agent = "trader" -> some(TRADING_KEYWORDS, q)
       [] agent = "portfolio" -> some(PORTFOLIO_KEYWORDS, q)
       [] agent = "news" -> some(NEWS_KEYWORDS, q)
       [] agent = "stock" ->
            \/ some(STOCK_KEYWORDS, q)
            \/ /\ TickerMatches(message, 0) # {}
               /\ some(TICKER_VERBS, q)
       [] agent = "analyst" -> some(ANALYST_KEYWORDS, q)
       [] agent = "tax_pro" -> some(TAX_KEYWORDS, q)
       [] agent = "planner" -> some(PLANNER_KEYWORDS, q)

\* C1: a message that contains a trading trigger phrase is routed to the
\* trading specialist, whatever other trigger phrases it contains.
C1_TradingOutranks ==
  (text # <<>> /\ some(TRADING_KEYWORDS, toLowerCase(text)))
    => detected = "trader"

Q_buy_stock ==
  F_buy \o F_stock

C1_Witness ==
  /\ text = Q_buy_stock
  /\ some(ANALYST_KEYWORDS, toLowerCase(text))
  /\ detected = "trader"

\* C2: detectAgent returns the first specialist in catalogue order that has
\* a matching trigger, and advisor exactly when no specialist has one.
C2_FirstMatch ==
  text # <<>> =>
    LET hits == { i \in DOMAIN CatalogueOrder : HasTrigger(CatalogueOrder[i], text) }
    IN /\ hits = {} <=> detected = "advisor"
       /\ hits # {} =>
            detected = CatalogueOrder[CHOOSE i \in hits : \A j \in hits : i <= j]

C2_Witness ==
  /\ text = F_pe
  /\ HasTrigger("stock", text)
  /\ HasTrigger("analyst", text)
  /\ detected = "stock"

\* C3: "What is the wash sale rule?" is routed to the tax specialist, and
\* so is the follow-up "Does it apply to ETFs?" asked after it.
C3_WashSaleScenario ==
  /\ text = F_wash => detected = "tax_pro"
  /\ (text = F_etfs /\ probe = F_wash /\ probeRuns > 0) => detected = "tax_pro"

C4_SourceReflectsPath ==
  routerPc = "done" =>
    /\ decision # NoDecision
    /\ decision.source \in {"llm", "keyword-fallback"}
    /\ (llmResult.kind \in LLMFailures) => decision.source = "keyword-fallback"
    /\ (llmResult.kind = "ok" /\ llmResult.confidence < ConfidenceFloor)
         => decision.source = "keyword-fallback"
    /\ decision.source = "llm" =>
         /\ llmResult.kind = "ok"
         /\ llmResult.confidence >= ConfidenceFloor
         /\ decision.agent_name = llmResult.agent
    /\ decision.source = "keyword-fallback" =>
         decision.agent_name = detectAgent(question, 0).agent

C4_Witness ==
  /\ routerPc = "done"
  /\ llmResult.kind = "ok"
  /\ llmResult.confidence < ConfidenceFloor
  /\ llmResult.agent = "analyst"
  /\ question = F_tax
  /\ decision.source = "keyword-fallback"
  /\ decision.agent_name = "tax_pro"

\* ------------------------------------------------------------------------
\* Holdings store and ledger properties
\* ------------------------------------------------------------------------

H_AAPL(shares, cost) ==
  [ticker |-> T_AAPL, shares |-> shares, avg_cost |-> Rat(cost, 1)]

\* The entries of the list for the ticker, compared in upper case
EntriesOf(list, ticker) ==
  { i \in DOMAIN list : toUpperCase(list[i].ticker) = toUpperCase(ticker) }

\* C6: adding shares of a ticker already held leaves one holding for it,
\* with the summed shares and the weighted-average cost
\* (old_shares*old_avg_cost + shares*price)/(old_shares + shares); 10 at 100
\* then 10 at 200 gives 20 shares at 150.
C6_WeightedAverage ==
  [][ /\ \A t \in {T_aapl, T_NVDA}, c \in {<<"1","0","0">>, <<"2","0","0">>} :
           LET tk  == toUpperCase(t)
               n   == 10
               p   == IF c = <<"1","0","0">> THEN 100 ELSE 200
               idx == findIndex(holdings, tk)
           IN (idx # -1 /\ handleAdd(t, <<"1","0">>, c)) =>
                LET old == holdings[idx]
                    new == holdings'[idx]
                IN /\ EntriesOf(holdings', tk) = {idx}
                   /\ Len(holdings') = Len(holdings)
                   /\ new.shares = old.shares + n
                   /\ new.avg_cost.den > 0
                   /\ new.avg_cost.num * old.avg_cost.den * (old.shares + n)
                        = (old.shares * old.avg_cost.num
                            + n * p * old.avg_cost.den) * new.avg_cost.den
      /\ (holdings = <<H_AAPL(10, 100)>>
            /\ handleAdd(T_aapl, <<"1","0">>, <<"2","0","0">>))
           => holdings' = <<H_AAPL(20, 150)>>
    ]_vars

C6_Witness ==
  /\ holdings = <<H_AAPL(20, 150)>>
  /\ piError = NULL

\* C7: a sell of more shares than the session holds of the ticker fails
\* with InsufficientSharesError and changes nothing, and no holding ever
\* has a negative number of shares.
C7_OversellRejected ==
  [][ /\ \A t \in LedgerTickers, n \in SellShares, p \in Prices :
           (apply_sell(t, n, p) /\ n > SharesOf(ledger, t)) =>
              /\ ledger' = ledger
              /\ nTrades' = nTrades
              /\ ledgerResult' = "InsufficientSharesError"
      /\ \A i \in DOMAIN ledger' : ledger'[i].shares >= 0
    ]_vars

C7_Witness ==
  /\ ledgerResult = "InsufficientSharesError"
  /\ ledger = <<[ticker |-> T_AAPL, shares |-> 10, avg_cost |-> Rat(150, 1)]>>

\* The texts of the shares field that are not a positive number
InvalidSharesTexts ==
  {<<>>, <<"a","b","c">>, <<"0">>, <<"-","5">>, <<"1","0","a","b","c">>}

\* C8: adding a position with zero, negative or non-numeric shares is
\* refused with an error and leaves the stored holdings unchanged.
C8_InvalidSharesRejected ==
  [][ \/ (holdings' = holdings /\ piError' # NULL)
      \/ \A t \in TickerTexts, s \in InvalidSharesTexts, c \in CostTexts :
           ~handleAdd(t, s, c)
    ]_vars

C8_Witness ==
  /\ piError = "Shares must be a positive number"
  /\ holdings # <<>>

\* C9: no ticker, compared in upper case, appears twice in the stored
\* holdings, after any adds, removes, clears and syncs from the backend.
C9_OneEntryPerTicker ==
  \A i, j \in DOMAIN holdings :
    toUpperCase(holdings[i].ticker) = toUpperCase(holdings[j].ticker) => i = j

C9_Witness ==
  /\ Len(holdings) = 2
  /\ ~sharedData.isNull
  /\ Len(sharedData.holdings) = 1
  /\ holdings[1] = mapHoldings(sharedData.holdings)[1]
  /\ holdings[2].avg_cost = Rat(200, 1)

\* C10: every stored holding has shares > 0, and a position whose shares
\* reached zero is no longer in the store once the store has been synced
\* from the backend.
C10_NoZeroRetained ==
  [][ /\ \A i \in DOMAIN holdings' : holdings'[i].shares > 0
      /\ (\E r \in inflight : handleSendHoldings(r, TRUE))
           => Tickers(holdings') \cap soldOut' = {}
    ]_vars

\* ------------------------------------------------------------------------
\* Backend ToolLoop (ReAct executor): run(..., max_iterations)
\* ------------------------------------------------------------------------

\* Max iterations of the ReAct agents
max_iterations ==
  8

\* Most tool calls the LLM requests in one response
MaxCalls ==
  2

\* The results a round of tool calls can have: every call returns a
\* payload, "ok" or a structured "error" (an exception of the tool is
\* converted, never raised)
RoundResults ==
  UNION { [1..n -> {"ok", "error"}] : n \in 1..MaxCalls }

\* The strings run can return
FinalAnswer ==
  <<"f","i","n","a","l">>

BestEffort ==
  <<"b","e","s","t"," ","e","f","f","o","r","t">>

Apology ==
  <<"a","p","o","l","o","g","y">>

\* run is called: the loop starts in THINK
runBegin ==
  /\ loopState \in {"idle", "DONE"}
  /\ loopState' = "THINK"
  /\ iterations' = 0
  /\ toolResults' = <<>>
  /\ loopAnswer' = <<>>
  /\ UNCHANGED <<chatVars, probeVars, routerVars, storeVars, ledgerVars,
                 otherTab, summaryVars, orchVars>>

\* THINK: the LLM call returns a final text (the loop is DONE), or
\* requests tool calls (ACT), or fails (the request is answered with an
\* apology)
think(response) ==
  /\ loopState = "THINK"
  /\ CASE response = "final" ->
            /\ loopState' = "DONE"
            /\ loopAnswer' = FinalAnswer
       [] response = "tool_calls" ->
            /\ loopState' = "ACT"
            /\ UNCHANGED loopAnswer
       [] response = "failure" ->
            /\ loopState' = "DONE"
            /\ loopAnswer' = Apology
  /\ UNCHANGED <<iterations, toolResults>>
  /\ UNCHANGED <<chatVars, probeVars, routerVars, storeVars, ledgerVars,
                 otherTab, summaryVars, orchVars>>

\* Mutation: the loop goes back to THINK whatever the number of rounds
act_uncapped(results, synthesized) ==
  /\ loopState = "ACT"
  /\ iterations' = iterations + 1
  /\ toolResults' = results
  /\ loopState' = "THINK"
  /\ UNCHANGED loopAnswer
  /\ UNCHANGED <<chatVars, probeVars, routerVars, storeVars, ledgerVars,
                 otherTab, summaryVars, orchVars>>

\* ACT: the requested tools are called and their results appended; that is
\* one round. Below max_iterations the loop goes back to THINK; at
\* max_iterations it is DONE with a best-effort message synthesized from
\* the last results, or with an apology when that synthesis fails
act(results, synthesized) ==
  /\ loopState = "ACT"
  /\ iterations' = iterations + 1
  /\ toolResults' = results
  /\ IF iterations + 1 < max_iterations
     THEN /\ loopState' = "THINK"
          /\ UNCHANGED loopAnswer
     ELSE /\ loopState' = "DONE"
          /\ loopAnswer' = IF synthesized THEN BestEffort ELSE Apology
  /\ UNCHANGED <<chatVars, probeVars, routerVars, storeVars, ledgerVars,
                 otherTab, summaryVars, orchVars>>

InitBackend ==
  /\ InitChat
  /\ InitNoProbe
  /\ InitRouter
  /\ InitStore
  /\ InitLedger
  /\ InitLoop
  /\ InitOrch

NextLoop ==
  \/ runBegin
  \/ \E response \in {"final", "tool_calls", "failure"} : think(response)
  \/ \E results \in RoundResults, synthesized \in BOOLEAN : act(results, synthesized)

SpecLoop ==
  InitBackend /\ [][NextLoop]_vars

\* ------------------------------------------------------------------------
\* Backend Orchestrator: process_query(question, session_id)
\* ------------------------------------------------------------------------

\* Synthesis threshold: memory is synthesized when turns > 5
SynthesisThreshold ==
  5

\* Turns the conversation store of the session gets to hold
MaxTurnCount ==
  9

\* The error a request fails with when save_turn fails
StorageError ==
  <<"StorageError">>

\* The answers the ToolLoop of a specialist returns
LoopAnswers ==
  {FinalAnswer, BestEffort, Apology}

\* process_query is called: the session id is resolved, history and
\* summary are loaded
processBegin ==
  /\ orchPc = "idle"
  /\ turnCount < MaxTurnCount
  /\ orchPc' = "loaded"
  /\ synthesis' = NONE
  /\ context' = NONE
  /\ orchOutcome' = <<>>
  /\ UNCHANGED <<turnCount, summary>>
  /\ UNCHANGED <<chatVars, probeVars, routerVars, storeVars, ledgerVars,
                 otherTab, summaryVars, loopVars>>

\* Step 3: MemorySynthesizer is called if turn_count > threshold and no
\* fresh summary covers the latest turns; otherwise routing is next, with
\* the summary when there is a fresh one
processSynthesisDue ==
  /\ orchPc = "loaded"
  /\ IF turnCount > SynthesisThreshold /\ summary # "fresh"
     THEN /\ orchPc' = "synthesize"
          /\ UNCHANGED context
     ELSE /\ orchPc' = "route"
          /\ context' = IF summary = "fresh" THEN "summary" ELSE "raw"
  /\ UNCHANGED <<turnCount, summary, synthesis, orchOutcome>>
  /\ UNCHANGED <<chatVars, probeVars, routerVars, storeVars, ledgerVars,
                 otherTab, summaryVars, loopVars>>

\* Mutation: a failed synthesis fails the request
processSynthesized_fatal(ok) ==
  /\ orchPc = "synthesize"
  /\ IF ok
     THEN /\ synthesis' = "ok"
          /\ summary' = "fresh"
          /\ context' = "summary"
          /\ orchPc' = "route"
          /\ UNCHANGED orchOutcome
     ELSE /\ synthesis' = "failed"
          /\ orchPc' = "idle"
          /\ orchOutcome' = <<"SynthesisFailure">>
          /\ UNCHANGED <<summary, context>>
  /\ UNCHANGED turnCount
  /\ UNCHANGED <<chatVars, probeVars, routerVars, storeVars, ledgerVars,
                 otherTab, summaryVars, loopVars>>

\* The call of MemorySynthesizer returns: the summary is saved and used,
\* or the call failed and the request goes on with the raw history only
processSynthesized(ok) ==
  /\ orchPc = "synthesize"
  /\ IF ok
     THEN /\ synthesis' = "ok"
          /\ summary' = "fresh"
          /\ context' = "summary"
     ELSE /\ synthesis' = "failed"
          /\ context' = "raw"
          /\ UNCHANGED summary
  /\ orchPc' = "route"
  /\ UNCHANGED <<turnCount, orchOutcome>>
  /\ UNCHANGED <<chatVars, probeVars, routerVars, storeVars, ledgerVars,
                 otherTab, summaryVars, loopVars>>

\* Step 4: Router.route returns a decision (it always does)
processRouted ==
  /\ orchPc = "route"
  /\ orchPc' = "execute"
  /\ UNCHANGED <<turnCount, summary, synthesis, context, orchOutcome>>
  /\ UNCHANGED <<chatVars, probeVars, routerVars, storeVars, ledgerVars,
                 otherTab, summaryVars, loopVars>>

\* Step 5: the ToolLoop of the specialist returns its answer: a final
\* answer, a best-effort message or an apology
processExecuted(answer) ==
  /\ orchPc = "execute"
  /\ orchPc' = "save"
  /\ orchOutcome' = answer
  /\ UNCHANGED <<turnCount, summary, synthesis, context>>
  /\ UNCHANGED <<chatVars, probeVars, routerVars, storeVars, ledgerVars,
                 otherTab, summaryVars, loopVars>>

\* Steps 6 and 7: save_turn stores the turn and the answer is returned, or
\* save_turn fails with StorageError and so does the request. A stored
\* turn is one more turn the summary does not cover
processSaved(ok) ==
  /\ orchPc = "save"
  /\ orchPc' = "idle"
  /\ IF ok
     THEN /\ turnCount' = turnCount + 1
          /\ summary' = IF summary = "fresh" THEN "stale" ELSE summary
          /\ UNCHANGED orchOutcome
     ELSE /\ orchOutcome' = StorageError
          /\ UNCHANGED <<turnCount, summary>>
  /\ UNCHANGED <<synthesis, context>>
  /\ UNCHANGED <<chatVars, probeVars, routerVars, storeVars, ledgerVars,
                 otherTab, summaryVars, loopVars>>

NextOrch ==
  \/ processBegin
  \/ processSynthesisDue
  \/ \E ok \in BOOLEAN : processSynthesized(ok)
  \/ processRouted
  \/ \E answer \in LoopAnswers : processExecuted(answer)
  \/ \E ok \in BOOLEAN : processSaved(ok)

SpecOrch ==
  InitBackend /\ [][NextOrch]_vars

\* ------------------------------------------------------------------------
\* Conversation history properties
\* ------------------------------------------------------------------------

\* The stored messages of a turn with the given role, in any session
StoredOfTurn(turn, role) ==
  { m \in UNION { Range(sessions[k].messages) : k \in DOMAIN sessions } :
      m.turn = turn /\ m.role = role }

\* C12: a turn is stored as a pair: when no send is outstanding, the
\* stored messages hold the user message of a turn exactly when they hold
\* its assistant message.
C12_TurnStoredAsPair ==
  inflight = {} =>
    \A turn \in 1..MaxTurns :
      StoredOfTurn(turn, "user") = {} <=> StoredOfTurn(turn, "assistant") = {}

\* C13: a step that stores the assistant message of a turn leaves the
\* session with the messages stored before the turn, then the user message
\* of the turn, then the assistant message, and changes no other session.
C13_HistoryKeepsSaveOrder ==
  [][ \A k \in DOMAIN sessions' :
        LET new == sessions'[k].messages
            old == getSessionMessages(sessions, sessions'[k].id)
        IN (new # old /\ new[Len(new)].role = "assistant") =>
             /\ new = Append(old, new[Len(new)])
             /\ Len(old) >= 1
             /\ old[Len(old)].role = "user"
             /\ old[Len(old)].turn = new[Len(new)].turn
             /\ \A j \in DOMAIN sessions' :
                  j # k => sessions'[j].messages =
                             getSessionMessages(sessions, sessions'[j].id)
    ]_vars

\* C14: a chat view given a session id that is not in the store shows an
\* empty message list.
C14_UnknownSessionIsEmpty ==
  [][ (chatMounted' /\ sessionId' # sessionId
         /\ sessionId' \notin SessionIds(sessions'))
        => messages' = <<>>
    ]_vars

C14_Witness ==
  /\ chatMounted
  /\ sessionId \notin SessionIds(sessions)
  /\ messages = <<>>
  /\ \E k \in DOMAIN sessions : sessions[k].messages # <<>>

\* C15: every ask carries the session_id of the last response to an ask of
\* the same chat session, and none when that session has had no response.
C15_SessionContinuity ==
  [][ \A r \in inflight' :
        r.turn = nextTurn => r.asked = lastSuccess[r.sid]
    ]_vars

C15_Witness ==
  \E r \in inflight :
    /\ r.pc = "ask"
    /\ r.asked # 0
    /\ r.asked = lastSuccess[r.sid]
    /\ \E s \in DOMAIN lastSuccess : s # r.sid /\ lastSuccess[s] = 0
    /\ Len(sessions) = 2

RoutingTableTypes ==
  << <<"finance_qa", "advisor">>,
     <<"stock_agent", "stock">>,
     <<"market_analysis", "analyst">>,
     <<"portfolio_analysis", "portfolio">>,
     <<"goal_planning", "planner">>,
     <<"news_synthesizer", "news">>,
     <<"tax_education", "tax_pro">>,
     <<"trading_agent", "trader">> >>

\* C19: an ask answered with an agent name of the documented routing table
\* makes the frontend agent type of that name the active agent.
C19_RoutingTableNamesMapped ==
  [][ (lastReply' # lastReply /\ lastReply'.mounted) =>
        \A i \in DOMAIN RoutingTableTypes :
          RoutingTableTypes[i][1] = lastReply'.agent =>
            activeAgent' = RoutingTableTypes[i][2]
    ]_vars

\* C20: when the holdings fetch after a trading_agent response succeeds,
\* the local holdings store becomes the backend's list of holdings.
C20_StoreMirrorsBackend ==
  [][ (\E r \in inflight : handleSendHoldings(r, TRUE))
        => holdings' = mapHoldings(ledger)
    ]_vars

\* C11: an addHolding that runs while another tab updates the store adds
\* its shares to the shares stored when it writes: no update is lost.
C11_NoLostUpdate ==
  [][ (otherTab.pc = "save" /\ otherTab'.pc = "idle") =>
        SharesOf(holdings', otherTab.h.ticker) =
          SharesOf(holdings, otherTab.h.ticker) + otherTab.h.shares
    ]_vars

\* ------------------------------------------------------------------------
\* Backend loop and orchestration properties
\* ------------------------------------------------------------------------

\* C16: the tool loop never performs more than max_iterations tool-call
\* rounds, and when it is done it has returned a non-empty string, also
\* when every tool call failed or no final answer was produced.
C16_LoopBounded ==
  /\ iterations <= max_iterations
  /\ loopState = "DONE" => loopAnswer # <<>>

C16_Witness ==
  /\ loopState = "DONE"
  /\ iterations = max_iterations
  /\ \A i \in DOMAIN toolResults : toolResults[i] = "error"
  /\ loopAnswer = BestEffort

C21_NoStaleMapping ==
  \A i \in DOMAIN backendSessionMap :
    backendSessionMap[i][1] \in SessionIds(sessions)

\* The suspended calls of handleSend that belong to the mounted view
OfView ==
  { r \in inflight : r.mounted }

\* C22: a chat view has at most one ask in flight, and loading is set
\* exactly while it has one; a send starts only with non-blank input and
\* loading unset; every started send ends, and loading is unset again.
C22_OneAskPerView ==
  /\ [](Cardinality(OfView) <= 1 /\ (loading <=> OfView # {}))
  /\ [][ nextTurn' # nextTurn => (~loading /\ text' # <<>>) ]_vars
  /\ \A turn \in 1..MaxTurns :
       (\E r \in inflight : r.turn = turn)
         ~> ~(\E r \in inflight : r.turn = turn)
  /\ loading ~> ~loading

C22_Witness ==
  /\ chatMounted
  /\ ~loading
  /\ inflight = {}
  /\ nextTurn = 3
  /\ lastReply.turn = 1
  /\ Len(messages) = 3

\* C23: whenever no ask is in flight, the chat view shows exactly the
\* stored messages of the session it is given.
C23_ViewShowsStored ==
  (chatMounted /\ inflight = {}) =>
    messages = getSessionMessages(sessions, sessionId)

\* ------------------------------------------------------------------------
\* Portfolio summary cache: specification and properties
\* ------------------------------------------------------------------------

\* How far the clock moves in a step
Delays ==
  {TTL \div 2}

\* Conversations with the trading agent, one message each and one after
\* the other, while a consumer of the summary mounts and refreshes and
\* time passes
NextSummary ==
  \/ inflight = {} /\ handleNewSession
  \/ \E id \in SessionIds(sessions) : inflight = {} /\ handleDeleteSession(id)
  \/ FreshConversation /\ handleSend(F_buy)
  \/ \E r \in inflight : handleSendResolved(r, "trading_agent")
  \/ \E r \in inflight : handleSendHoldings(r, TRUE)
  \/ usePortfolioSummary
  \/ \E force \in BOOLEAN : refresh(force)
  \/ \E f \in fetches : refreshSettled(f, "ok")
  \/ \E d \in Delays : tick(d)

SpecSummary ==
  InitNoDetect /\ [][NextSummary]_vars

\* C24: the step that completes a trade (the holdings fetch after a
\* trading_agent reply has settled) empties the summary cache and starts a
\* request for the summary on behalf of the mounted consumer.
C24_TradeInvalidatesCache ==
  [][ (\E r \in inflight : r.pc = "holdings" /\ r \notin inflight') =>
        /\ cached'.isNull
        /\ nextFetch' = nextFetch + 1
        /\ \E f \in fetches' : f.id = nextFetch /\ f.mounted
    ]_vars

\* An unforced call of refresh, by a mounting consumer or on a mounted one
refreshUnforced ==
  usePortfolioSummary \/ refresh(FALSE)

\* C25 as stated: an unforced refresh less than TTL after the last
\* successful fetch sends no request and serves the cached summary; an
\* unforced refresh with an older cached summary sends a request; a forced
\* refresh sends a request when a backend session resolves.
C25_TTLRespected ==
  [][ /\ (refreshUnforced /\ ~cached.isNull /\ now - lastFetchedAt < TTL) =>
           (nextFetch' = nextFetch /\ sharedData' = cached)
      /\ (refreshUnforced /\ ~cached.isNull /\ now - lastFetchedAt >= TTL) =>
           nextFetch' = nextFetch + 1
      /\ (refresh(TRUE) /\ sessionNow # 0) => nextFetch' = nextFetch + 1
    ]_vars

\* C25 amended: the same where a backend session resolves; where none
\* resolves, no request is sent and the consumer gets null.
C25_TTLRespectedResolved ==
  [][ /\ (refreshUnforced /\ sessionNow # 0
            /\ ~cached.isNull /\ now - lastFetchedAt < TTL) =>
           (nextFetch' = nextFetch /\ sharedData' = cached)
      /\ (refreshUnforced /\ sessionNow # 0
            /\ ~cached.isNull /\ now - lastFetchedAt >= TTL) =>
           nextFetch' = nextFetch + 1
      /\ (refresh(TRUE) /\ sessionNow # 0) => nextFetch' = nextFetch + 1
      /\ ((refreshUnforced \/ refresh(TRUE)) /\ sessionNow = 0) =>
           (nextFetch' = nextFetch /\ sharedData' = NullSummary)
    ]_vars

C25_Witness ==
  /\ refreshDid = "cache"
  /\ sessionNow # 0
  /\ sharedData = cached
  /\ ~cached.isNull
  /\ now - lastFetchedAt = TTL \div 2
  /\ nextFetch = 2

\* C26: a summary given to a consumer was fetched for the backend session
\* that resolveBackendSid resolves when it is given.
C26_SummaryOfResolvedSession ==
  [][ (sharedData' # sharedData /\ ~sharedData'.isNull) =>
        sharedData'.sid =
          resolveBackendSid(activeSessionKey', sessions', backendSessionMap')
    ]_vars

\* C27: resolveBackendSid returns the backend id of the active session
\* when that session has one, and null exactly when the map has no entry.
C27_ResolveActiveFirst ==
  /\ getBackendSessionId(backendSessionMap, activeSessionKey) # 0 =>
       sessionNow = getBackendSessionId(backendSessionMap, activeSessionKey)
  /\ sessionNow = 0 <=> backendSessionMap = <<>>

C27_Witness ==
  /\ Len(backendSessionMap) = 2
  /\ activeSessionKey = backendSessionMap[1][1]
  /\ sessions[1].id # activeSessionKey
  /\ sessionNow = backendSessionMap[1][2]
  /\ sessionNow # backendSessionMap[2][2]

=============================================================================
